---- MODULE Spec2Model ----
(***************************************************************************)
(* A model of the erc3-js SDK: the request executor shared by the three    *)
(* facade clients (ERC3, StoreClient, DemoClient), their endpoint methods  *)
(* and the tool dispatchers.  A facade call is followed from its           *)
(* invocation, through the two await points of _request (fetch, then       *)
(* response.json()), to the settlement of its promise.  The construction   *)
(* of the clients, concurrent calls, the helper getApiKey, the pagination  *)
(* loop of the store example and the command-line front-ends have          *)
(* specifications of their own.                                            *)
(***************************************************************************)
EXTENDS Integers, Sequences, FiniteSets, TLC

VARIABLES
    core,   \* the ERC3 instance: [apiKey, baseUrl]
    store,  \* the StoreClient instance: [baseUrl, taskId]
    demo,   \* the DemoClient instance: [baseUrl, taskId]
    calls,  \* per call slot: the facade call in progress, its requests and outcome
    env,    \* process.env: [ERC3_API_KEY] and, for the front-ends, ERC3_BASE_URL
    pager,  \* the locals of the pagination loop of the store example
    server, \* the remote store: the size of its catalog
    cli     \* the process of a command-line front-end

vars == <<core, store, demo, calls, env, pager, server, cli>>

----------------------------------------------------------------------------
(* JavaScript values.  Every value carries its type tag, so that typeof,   *)
(* truthiness and property access can be computed as the engine does.      *)

Undefined == [t |-> "undefined"]
Null == [t |-> "null"]
Str(s) == [t |-> "string", s |-> s]
Num(n) == [t |-> "number", n |-> n]
Bool(b) == [t |-> "boolean", b |-> b]
Arr(items) == [t |-> "array", items |-> items]
\* An object: f maps each own property name to its value.
Obj(f) == [t |-> "object", f |-> f]
NoFields == [k \in {} |-> Undefined]

\* Object literal { k1: v1, ... } given as a record r whose fields may hold
\* the marker Undefined for "property not present".
Only(r) == Obj([k \in {k \in DOMAIN r : r[k] # Undefined} |-> r[k]])

typeof(v) == IF v.t \in {"null", "array"} THEN "object" ELSE v.t

\* v is null or undefined: reading a property of v throws a TypeError.
Nullish(v) == v.t \in {"undefined", "null"}

\* v.k for a non-nullish v (undefined when v has no such property).
Get(v, k) == IF v.t = "object" /\ k \in DOMAIN v.f THEN v.f[k] ELSE Undefined

\* ToBoolean(v)
Truthy(v) ==
    CASE v.t \in {"undefined", "null"} -> FALSE
      [] v.t = "number" -> v.n # 0
      [] v.t = "string" -> v.s # ""
      [] v.t = "boolean" -> v.b
      [] OTHER -> TRUE

\* a || b
Or(a, b) == IF Truthy(a) THEN a ELSE b

\* v >= n for the values a status field takes here (numbers; undefined and
\* objects compare false, null converts to 0).
GreaterOrEqual(v, n) ==
    CASE v.t = "number" -> v.n >= n
      [] v.t = "null" -> 0 >= n
      [] OTHER -> FALSE

\* A parameter or destructuring default: applies to undefined only.
Default(v, d) == IF v = Undefined THEN d ELSE v

\* The decimal digits of a natural number.
RECURSIVE NatToStr(_)
NatToStr(n) ==
    LET digit == <<"0", "1", "2", "3", "4", "5", "6", "7", "8", "9">>[(n % 10) + 1]
    IN  IF n < 10 THEN digit ELSE NatToStr(n \div 10) \o digit

\* `${v}` for the values interpolated into URLs and messages.
TemplateStr(v) ==
    CASE v.t = "string" -> v.s
      [] v.t = "number" -> NatToStr(v.n)
      [] v.t = "boolean" -> IF v.b THEN "true" ELSE "false"
      [] v.t = "undefined" -> "undefined"
      [] v.t = "null" -> "null"
      [] v.t = "array" -> ""
      [] OTHER -> "[object Object]"

\* String(v)
String(v) == Str(TemplateStr(v))

\* The value JSON.stringify writes for v: properties whose value is undefined
\* are left out, at every level.
RECURSIVE Serializable(_)
Serializable(v) ==
    IF v.t = "object"
    THEN Obj([k \in {k \in DOMAIN v.f : v.f[k] # Undefined} |-> Serializable(v.f[k])])
    ELSE v

\* JSON.stringify(v): the text, represented by the JSON value it denotes.
JSONStringify(v) == [json |-> Serializable(v)]

----------------------------------------------------------------------------
(* Errors and the settlement of a promise.                                 *)

\* new ApiException(message, status, code, detail)
ApiException(message, status, code, detail) ==
    [name |-> "ApiException", message |-> message, status |-> status,
     code |-> code, detail |-> detail]

\* new Error(message) and the engine's TypeError: no status, code or detail.
PlainError(name, message) == [name |-> name, message |-> Str(message)]

Pending == [kind |-> "pending"]
Resolved(value) == [kind |-> "resolved", value |-> value]
Rejected(error) == [kind |-> "rejected", error |-> error]

\* What a facade method does synchronously: it throws, or it reaches
\* _request with an endpoint and a data object.
Throw(error) == [do |-> "throw", error |-> error]
\* A function that calls fetch itself hands it this request.
Fetch(request) == [do |-> "fetch", request |-> request]
\* A constructor or factory returns a value, without any request.
Return(value) == [do |-> "return", value |-> value]
Send(endpoint, data) == [do |-> "request", endpoint |-> endpoint, data |-> data]

----------------------------------------------------------------------------
(* The request executors.  Each client has its own copy of _request; a     *)
(* copy is modelled by the request it hands to fetch, by what it does with *)
(* the parsed body, and by its catch block.                                *)

ContentTypeJson == [k \in {"Content-Type"} |-> "application/json"]

\* A request that also carries the API key in a header.
ERC3_fetch_keyHeader(endpoint, data) ==
    [url |-> TemplateStr(core.baseUrl) \o endpoint,
     method |-> "POST",
     headers |-> [k \in {"Content-Type", "X-API-Key"} |->
                     IF k = "Content-Type" THEN "application/json" ELSE core.apiKey.s],
     body |-> JSONStringify(data)]

\* ERC3._request up to the call of fetch.
ERC3_fetch(endpoint, data) ==
    [url |-> TemplateStr(core.baseUrl) \o endpoint,
     method |-> "POST",
     headers |-> ContentTypeJson,
     body |-> JSONStringify(data)]

\* StoreClient._request up to the call of fetch.
StoreClient_fetch(endpoint, data) ==
    [url |-> TemplateStr(store.baseUrl) \o "/store/" \o TemplateStr(store.taskId) \o endpoint,
     method |-> "POST",
     headers |-> ContentTypeJson,
     body |-> JSONStringify(data)]

\* DemoClient._request up to the call of fetch.
DemoClient_fetch(endpoint, data) ==
    [url |-> TemplateStr(demo.baseUrl) \o "/demo/" \o TemplateStr(demo.taskId) \o endpoint,
     method |-> "POST",
     headers |-> ContentTypeJson,
     body |-> JSONStringify(data)]

\* A catch block without the instanceof test: every error is wrapped.
ERC3_catch_wrapsAll(error) ==
    Rejected(ApiException(Str("Request failed: " \o error.message.s), Num(500),
                          Str("REQUEST_FAILED"), error.message))

\* The catch block of ERC3._request.
ERC3_catch(error) ==
    IF error.name = "ApiException"
    THEN Rejected(error)
    ELSE Rejected(ApiException(Str("Request failed: " \o error.message.s), Num(500),
                               Str("REQUEST_FAILED"), error.message))

\* A catch block that passes the prefixed message as the detail.
StoreClient_catch_prefixedDetail(error) ==
    IF error.name = "ApiException"
    THEN Rejected(error)
    ELSE Rejected(ApiException(Str("Request failed: " \o error.message.s), Num(500),
                               Str("REQUEST_FAILED"),
                               Str("Request failed: " \o error.message.s)))

\* The catch block of StoreClient._request.
StoreClient_catch(error) ==
    IF error.name = "ApiException"
    THEN Rejected(error)
    ELSE Rejected(ApiException(Str("Request failed: " \o error.message.s), Num(500),
                               Str("REQUEST_FAILED"), error.message))

\* The catch block of DemoClient._request.
DemoClient_catch(error) ==
    IF error.name = "ApiException"
    THEN Rejected(error)
    ELSE Rejected(ApiException(Str("Request failed: " \o error.message.s), Num(500),
                               Str("REQUEST_FAILED"), error.message))

\* The TypeError the engine raises for result.status when result is null.
ReadOfNull == PlainError("TypeError", "Cannot read properties of null (reading 'status')")

\* An executor that passes the message, not the serialized body, as detail.
ERC3_result_messageDetail(result) ==
    IF Nullish(result)
    THEN ERC3_catch(ReadOfNull)
    ELSE IF Truthy(Get(result, "status")) /\ GreaterOrEqual(Get(result, "status"), 400)
         THEN ERC3_catch(ApiException(Or(Get(result, "error"), Str("API Error")),
                                      Get(result, "status"), Get(result, "code"),
                                      Or(Get(result, "error"), Str("API Error"))))
         ELSE Resolved(result)

\* ERC3._request from the parsed body on.
ERC3_result(result) ==
    IF Nullish(result)
    THEN ERC3_catch(ReadOfNull)
    ELSE IF Truthy(Get(result, "status")) /\ GreaterOrEqual(Get(result, "status"), 400)
         THEN ERC3_catch(ApiException(Or(Get(result, "error"), Str("API Error")),
                                      Get(result, "status"), Get(result, "code"),
                                      JSONStringify(result)))
         ELSE Resolved(result)

\* StoreClient._request from the parsed body on.
StoreClient_result(result) ==
    IF Nullish(result)
    THEN StoreClient_catch(ReadOfNull)
    ELSE IF Truthy(Get(result, "status")) /\ GreaterOrEqual(Get(result, "status"), 400)
         THEN StoreClient_catch(ApiException(Or(Get(result, "error"), Str("API Error")),
                                             Get(result, "status"), Get(result, "code"),
                                             JSONStringify(result)))
         ELSE Resolved(result)

\* A Demo executor that takes the body's error field without a default.
DemoClient_result_rawMessage(result) ==
    IF Nullish(result)
    THEN DemoClient_catch(ReadOfNull)
    ELSE IF Truthy(Get(result, "status")) /\ GreaterOrEqual(Get(result, "status"), 400)
         THEN DemoClient_catch(ApiException(Get(result, "error"),
                                            Get(result, "status"), Get(result, "code"),
                                            JSONStringify(result)))
         ELSE Resolved(result)

\* DemoClient._request from the parsed body on.
DemoClient_result(result) ==
    IF Nullish(result)
    THEN DemoClient_catch(ReadOfNull)
    ELSE IF Truthy(Get(result, "status")) /\ GreaterOrEqual(Get(result, "status"), 400)
         THEN DemoClient_catch(ApiException(Or(Get(result, "error"), Str("API Error")),
                                            Get(result, "status"), Get(result, "code"),
                                            JSONStringify(result)))
         ELSE Resolved(result)

\* A helper that translates an error body as the clients do.
getApiKey_result_translated(result) == ERC3_result(result)

\* getApiKey after response.json(): the parsed body is returned as it is.
getApiKey_result(result) == Resolved(result)

\* getApiKey has no try/catch: a rejection of fetch or of response.json() is
\* the rejection of its own promise.
getApiKey_catch(error) == Rejected(error)

\* this._request of the client a call runs on.
FetchOf(client, endpoint, data) ==
    CASE client = "core" -> ERC3_fetch(endpoint, data)
      [] client = "store" -> StoreClient_fetch(endpoint, data)
      [] client = "demo" -> DemoClient_fetch(endpoint, data)

ResultOf(client, result) ==
    CASE client = "core" -> ERC3_result(result)
      [] client = "store" -> StoreClient_result(result)
      [] client = "demo" -> DemoClient_result(result)
      [] client = "helper" -> getApiKey_result(result)

CatchOf(client, error) ==
    CASE client = "core" -> ERC3_catch(error)
      [] client = "store" -> StoreClient_catch(error)
      [] client = "demo" -> DemoClient_catch(error)
      [] client = "helper" -> getApiKey_catch(error)

----------------------------------------------------------------------------
(* The facade methods: what each does before it awaits _request.           *)

DefaultBaseUrl == "https://erc.timetoact-group.at"

\* The TypeError of destructuring or reading a property of null/undefined.
NullishAccess(what) == PlainError("TypeError", "Cannot read properties of " \o what)

\* { ...base, ...v } where base is given by its fields: the own properties of
\* an object v override those of base; a nullish v adds nothing.
Spread(base, v) ==
    IF v.t = "object"
    THEN Obj([k \in DOMAIN base \cup DOMAIN v.f |->
                 IF k \in DOMAIN v.f THEN v.f[k] ELSE base[k]])
    ELSE Obj(base)

\* A resolution without the typeof test: always reads .task_id.
TaskIdOf_propertyOnly(taskOrId) == Get(taskOrId, "task_id")

\* typeof taskOrId === 'string' ? taskOrId : taskOrId.task_id
\* (to be used for a non-nullish taskOrId only).
TaskIdOf(taskOrId) ==
    IF typeof(taskOrId) = "string" THEN taskOrId ELSE Get(taskOrId, "task_id")

\* A constructor without the check of this.apiKey.
ERC3_constructor_unchecked(options) ==
    IF options = Null
    THEN Throw(NullishAccess("null (reading 'apiKey')"))
    ELSE LET given == Default(options, Obj(NoFields))
             apiKey == Or(Get(given, "apiKey"), env.ERC3_API_KEY)
             baseUrl == Or(Get(given, "baseUrl"), Str(DefaultBaseUrl))
         IN  Return([apiKey |-> apiKey, baseUrl |-> baseUrl])

\* getApiKey(email, baseUrl = 'https://erc.timetoact-group.at')
getApiKey(email, baseUrl) ==
    Fetch([url |-> TemplateStr(Default(baseUrl, Str(DefaultBaseUrl))) \o "/get_key",
           method |-> "POST",
           headers |-> ContentTypeJson,
           body |-> JSONStringify(Obj([email |-> email]))])

\* new ERC3(options = {})
ERC3_constructor(options) ==
    IF options = Null
    THEN Throw(NullishAccess("null (reading 'apiKey')"))
    ELSE LET given == Default(options, Obj(NoFields))
             apiKey == Or(Get(given, "apiKey"), env.ERC3_API_KEY)
             baseUrl == Or(Get(given, "baseUrl"), Str(DefaultBaseUrl))
         IN  IF ~Truthy(apiKey)
             THEN Throw(PlainError("Error",
                     "API key is required. Set ERC3_API_KEY env var or pass apiKey option."))
             ELSE Return([apiKey |-> apiKey, baseUrl |-> baseUrl])

\* new StoreClient(baseUrl, taskId)
StoreClient_constructor(baseUrl, taskId) == [baseUrl |-> baseUrl, taskId |-> taskId]

\* new DemoClient(baseUrl, taskId)
DemoClient_constructor(baseUrl, taskId) == [baseUrl |-> baseUrl, taskId |-> taskId]

\* A factory that binds the new client to the default base URL.
getStoreClient_defaultUrl(taskOrId) ==
    IF Nullish(taskOrId)
    THEN Throw(NullishAccess(TemplateStr(taskOrId) \o " (reading 'task_id')"))
    ELSE Return(StoreClient_constructor(Str(DefaultBaseUrl), TaskIdOf(taskOrId)))

\* ERC3.getStoreClient(taskOrId)
getStoreClient(taskOrId) ==
    IF Nullish(taskOrId)
    THEN Throw(NullishAccess(TemplateStr(taskOrId) \o " (reading 'task_id')"))
    ELSE Return(StoreClient_constructor(core.baseUrl, TaskIdOf(taskOrId)))

\* ERC3.getDemoClient(taskOrId)
getDemoClient(taskOrId) ==
    IF Nullish(taskOrId)
    THEN Throw(NullishAccess(TemplateStr(taskOrId) \o " (reading 'task_id')"))
    ELSE Return(DemoClient_constructor(core.baseUrl, TaskIdOf(taskOrId)))

listBenchmarks == Send("/benchmarks/list", Obj(NoFields))

viewBenchmark(benchmark) == Send("/benchmarks/view", Obj([benchmark |-> benchmark]))

\* startSession taking the default architecture for every falsy value.
startSession_falsyArchitecture(options) ==
    IF Nullish(options)
    THEN Throw(NullishAccess("undefined (destructuring 'benchmark')"))
    ELSE Send("/sessions/start",
              Obj([account_key |-> core.apiKey,
                   benchmark |-> Get(options, "benchmark"),
                   workspace |-> Get(options, "workspace"),
                   name |-> Get(options, "name"),
                   architecture |-> Or(Get(options, "architecture"), Str("x86_64"))]))

\* ERC3.startSession({ benchmark, workspace, name, architecture = 'x86_64' })
startSession(options) ==
    IF Nullish(options)
    THEN Throw(NullishAccess("undefined (destructuring 'benchmark')"))
    ELSE Send("/sessions/start",
              Obj([account_key |-> core.apiKey,
                   benchmark |-> Get(options, "benchmark"),
                   workspace |-> Get(options, "workspace"),
                   name |-> Get(options, "name"),
                   architecture |-> Default(Get(options, "architecture"), Str("x86_64"))]))

sessionStatus(sessionId) == Send("/sessions/status", Obj([session_id |-> sessionId]))

searchSessions(criteria) ==
    Send("/sessions/search", Spread([account_key |-> core.apiKey], criteria))

submitSession(sessionId) == Send("/sessions/submit", Obj([session_id |-> sessionId]))

startTask(taskOrId) ==
    IF Nullish(taskOrId)
    THEN Throw(NullishAccess(TemplateStr(taskOrId) \o " (reading 'task_id')"))
    ELSE Send("/tasks/start", Obj([task_id |-> TaskIdOf(taskOrId)]))

completeTask(taskOrId) ==
    IF Nullish(taskOrId)
    THEN Throw(NullishAccess(TemplateStr(taskOrId) \o " (reading 'task_id')"))
    ELSE Send("/tasks/complete", Obj([task_id |-> TaskIdOf(taskOrId)]))

\* viewTask testing the truthiness of since instead of comparing with null.
viewTask_truthySince(taskId, since) ==
    IF Truthy(since)
    THEN Send("/tasks/view", Obj([task_id |-> taskId, since |-> since]))
    ELSE Send("/tasks/view", Obj([task_id |-> taskId]))

\* ERC3.viewTask(taskId, since = null)
viewTask(taskId, since) ==
    IF Default(since, Null) # Null
    THEN Send("/tasks/view", Obj([task_id |-> taskId, since |-> since]))
    ELSE Send("/tasks/view", Obj([task_id |-> taskId]))

logLLM(options) ==
    IF Nullish(options)
    THEN Throw(NullishAccess("undefined (destructuring 'taskId')"))
    ELSE LET usage == Get(options, "usage") IN
         IF Nullish(usage)
         THEN Throw(NullishAccess(TemplateStr(usage) \o " (reading 'prompt_tokens')"))
         ELSE Send("/tasks/log",
                   Obj([task_id |-> Get(options, "taskId"),
                        model |-> Get(options, "model"),
                        usage |-> Obj([prompt_tokens |->
                                           Or(Get(usage, "prompt_tokens"),
                                              Or(Get(usage, "input_tokens"), Num(0))),
                                       completion_tokens |->
                                           Or(Get(usage, "completion_tokens"),
                                              Or(Get(usage, "output_tokens"), Num(0))),
                                       total_tokens |-> Or(Get(usage, "total_tokens"), Num(0))]),
                        duration_sec |-> Get(options, "durationSec")]))

\* StoreClient.listProducts({ offset = 0, limit = 20 } = {})
listProducts(options) ==
    IF options = Null
    THEN Throw(NullishAccess("null (destructuring 'offset')"))
    ELSE Send("/products/list",
              Obj([tool |-> Str("/products/list"),
                   offset |-> Default(Get(Default(options, Obj(NoFields)), "offset"), Num(0)),
                   limit |-> Default(Get(Default(options, Obj(NoFields)), "limit"), Num(20))]))

viewBasket == Send("/basket/view", Obj([tool |-> Str("/basket/view")]))

addToBasket(sku, quantity) ==
    Send("/basket/add",
         Obj([tool |-> Str("/basket/add"), sku |-> sku, quantity |-> Default(quantity, Num(1))]))

\* removeFromBasket with the tool field copied from addToBasket.
removeFromBasket_wrongTool(sku, quantity) ==
    Send("/basket/remove",
         Obj([tool |-> Str("/basket/add"), sku |-> sku, quantity |-> Default(quantity, Num(1))]))

removeFromBasket(sku, quantity) ==
    Send("/basket/remove",
         Obj([tool |-> Str("/basket/remove"), sku |-> sku, quantity |-> Default(quantity, Num(1))]))

checkout == Send("/basket/checkout", Obj([tool |-> Str("/basket/checkout")]))

applyCoupon(coupon) ==
    Send("/coupon/apply", Obj([tool |-> Str("/coupon/apply"), coupon |-> coupon]))

removeCoupon == Send("/coupon/remove", Obj([tool |-> Str("/coupon/remove")]))

\* A dispatcher that hands request.limit to listProducts as the offset too.
StoreClient_dispatch_misrouted(request) ==
    IF Nullish(request)
    THEN Throw(NullishAccess(TemplateStr(request) \o " (reading 'tool')"))
    ELSE LET tool == Get(request, "tool") IN
         CASE tool = Str("/products/list") ->
                  listProducts(Obj([offset |-> Get(request, "limit"),
                                    limit |-> Get(request, "limit")]))
           [] tool = Str("/basket/view") -> viewBasket
           [] tool = Str("/basket/add") ->
                  addToBasket(Get(request, "sku"), Get(request, "quantity"))
           [] tool = Str("/basket/remove") ->
                  removeFromBasket(Get(request, "sku"), Get(request, "quantity"))
           [] tool = Str("/basket/checkout") -> checkout
           [] tool = Str("/coupon/apply") -> applyCoupon(Get(request, "coupon"))
           [] tool = Str("/coupon/remove") -> removeCoupon
           [] OTHER -> Throw(PlainError("Error", "Unknown tool: " \o TemplateStr(tool)))

\* StoreClient.dispatch(request)
StoreClient_dispatch(request) ==
    IF Nullish(request)
    THEN Throw(NullishAccess(TemplateStr(request) \o " (reading 'tool')"))
    ELSE LET tool == Get(request, "tool") IN
         CASE tool = Str("/products/list") ->
                  listProducts(Obj([offset |-> Get(request, "offset"),
                                    limit |-> Get(request, "limit")]))
           [] tool = Str("/basket/view") -> viewBasket
           [] tool = Str("/basket/add") ->
                  addToBasket(Get(request, "sku"), Get(request, "quantity"))
           [] tool = Str("/basket/remove") ->
                  removeFromBasket(Get(request, "sku"), Get(request, "quantity"))
           [] tool = Str("/basket/checkout") -> checkout
           [] tool = Str("/coupon/apply") -> applyCoupon(Get(request, "coupon"))
           [] tool = Str("/coupon/remove") -> removeCoupon
           [] OTHER -> Throw(PlainError("Error", "Unknown tool: " \o TemplateStr(tool)))

getSecret == Send("/secret", Obj([tool |-> Str("/secret")]))

\* submitAnswer passing the answer on without String().
submitAnswer_raw(answer) ==
    Send("/answer", Obj([tool |-> Str("/answer"), answer |-> answer]))

\* DemoClient.submitAnswer(answer)
submitAnswer(answer) ==
    Send("/answer", Obj([tool |-> Str("/answer"), answer |-> String(answer)]))

\* A dispatcher that forwards an unrecognized tool to the server.
DemoClient_dispatch_forwardsUnknown(request) ==
    IF Nullish(request)
    THEN Throw(NullishAccess(TemplateStr(request) \o " (reading 'tool')"))
    ELSE LET tool == Get(request, "tool") IN
         CASE tool = Str("/secret") -> getSecret
           [] tool = Str("/answer") -> submitAnswer(Get(request, "answer"))
           [] OTHER -> Send(TemplateStr(tool), Obj([tool |-> tool]))

\* DemoClient.dispatch(request)
DemoClient_dispatch(request) ==
    IF Nullish(request)
    THEN Throw(NullishAccess(TemplateStr(request) \o " (reading 'tool')"))
    ELSE LET tool == Get(request, "tool") IN
         CASE tool = Str("/secret") -> getSecret
           [] tool = Str("/answer") -> submitAnswer(Get(request, "answer"))
           [] OTHER -> Throw(PlainError("Error", "Unknown tool: " \o TemplateStr(tool)))

----------------------------------------------------------------------------
(* Inputs: the arguments callers pass and the answers of the network.      *)

\* The call slots: one caller, awaiting each call before it makes the next.
Calls == {"c1"}

TaskIds == {"task-1", ""}
\* A task given by its ID, as an object, or not given.
TaskArgs ==
    {Str(x) : x \in TaskIds} \cup {Obj([task_id |-> Str(x)]) : x \in TaskIds}
        \cup {Null, Undefined, Obj(NoFields)}

SessionOptions ==
    {Undefined} \cup
    {Only([benchmark |-> Str("demo"), workspace |-> Str("w"), name |-> Str("n"),
           architecture |-> a]) : a \in {Undefined, Null, Str("arm64")}}

Criteria ==
    {Undefined, Obj(NoFields), Obj([workspace |-> Str("w")]),
     Obj([workspace |-> Str("w"), account_key |-> Str("other-key")])}

Usages ==
    {Undefined} \cup
    {Only([prompt_tokens |-> p, input_tokens |-> i, completion_tokens |-> c,
           output_tokens |-> o, total_tokens |-> t]) :
        p \in {Undefined, Num(0), Num(100)}, i \in {Undefined, Num(7)},
        c \in {Undefined, Num(0), Num(50)}, o \in {Undefined, Num(3)},
        t \in {Undefined, Num(0), Num(150)}}

LogOptions ==
    {Undefined} \cup
    {Only([taskId |-> Str("task-1"), model |-> Str("gpt-4"), usage |-> u,
           durationSec |-> Num(2)]) : u \in Usages}

ListOptions ==
    {Undefined, Null} \cup
    {Only([offset |-> o, limit |-> l]) :
        o \in {Undefined, Num(0), Num(40)}, l \in {Undefined, Num(5)}}

Skus == {Undefined, Str("SKU-1")}
Quantities == {Undefined, Num(2)}
Coupons == {Undefined, Str("SAVE20")}
Answers == {Undefined, Null, Str("abc"), Num(42), Bool(TRUE), Bool(FALSE)}

StoreTools ==
    {"/products/list", "/basket/view", "/basket/add", "/basket/remove",
     "/basket/checkout", "/coupon/apply", "/coupon/remove"}
DemoTools == {"/secret", "/answer"}

\* Requests handed to StoreClient.dispatch: a known, unknown or missing tool
\* and any of the fields the tools read.
StoreRequests ==
    {Undefined} \cup
    {Only([tool |-> t, offset |-> o, limit |-> l, sku |-> s, quantity |-> q, coupon |-> c]) :
        t \in {Str(x) : x \in StoreTools} \cup {Str("/secret"), Undefined},
        o \in {Undefined, Num(40)}, l \in {Undefined, Num(5)},
        s \in Skus, q \in Quantities, c \in Coupons}

DemoRequests ==
    {Undefined} \cup
    {Only([tool |-> t, answer |-> a]) :
        t \in {Str(x) : x \in DemoTools} \cup {Str("/basket/view"), Undefined},
        a \in Answers}

\* How fetch and response.json() fail.
FetchErrors == {"fetch failed"}
ParseErrors == {"Unexpected token < in JSON at position 0"}
HttpStatuses == {200, 500}

\* Parsed response bodies: any JSON value; objects with or without the
\* status, error and code fields; a page of products and a basket whose
\* entries carry no price.
Bodies ==
    {Null, Num(7), Str("ok"), Arr(<<>>)} \cup
    {Obj([products |-> Arr(<<Obj([sku |-> Str("gpu-h100")])>>)]),
     Obj([items |-> Arr(<<Obj([sku |-> Str("gpu-h100"), quantity |-> Num(1)])>>),
          subtotal |-> Num(5)])} \cup
    {Only([status |-> st, error |-> e, code |-> cd]) :
        st \in {Undefined, Num(0), Num(399), Num(400), Num(500)},
        e \in {Undefined, Str(""), Str("not found")},
        cd \in {Undefined, Str("NOT_FOUND")}}

----------------------------------------------------------------------------
(* The state of a call and the steps of its life.                          *)

NoResponse == [kind |-> "none"]
NetworkError(message) == [kind |-> "network-error", message |-> message]
\* A response whose body is still unread, could not be parsed, or was parsed.
Response(status, json) == [kind |-> "response", status |-> status, json |-> json]
Unread == [kind |-> "unread"]
Invalid(message) == [kind |-> "invalid", message |-> message]
Parsed(value) == [kind |-> "parsed", value |-> value]

Idle ==
    [pc |-> "idle", client |-> "none", method |-> "none", via |-> "none",
     args |-> <<>>, sent |-> <<>>, response |-> NoResponse, outcome |-> Pending,
     settlements |-> 0]

\* No instance of a client has been constructed.
NoClient == [absent |-> TRUE]
\* The example's loop is not running.
NoPager == [pc |-> "off"]
NoServer == [products |-> 0]
\* No front-end process is running.
NoCli == [pc |-> "off"]

\* The three clients as an application holds them after
\* new ERC3({apiKey: 'key-123'}), getStoreClient('task-1'), getDemoClient('task-1').
Init ==
    /\ core = [apiKey |-> Str("key-123"), baseUrl |-> Str(DefaultBaseUrl)]
    /\ store = [baseUrl |-> Str(DefaultBaseUrl), taskId |-> Str("task-1")]
    /\ demo = [baseUrl |-> Str(DefaultBaseUrl), taskId |-> Str("task-1")]
    /\ calls = [c \in Calls |-> Idle]
    /\ env = [ERC3_API_KEY |-> Undefined]
    /\ pager = NoPager
    /\ server = NoServer
    /\ cli = NoCli

\* The instance a call runs on.
Instance(client) ==
    CASE client = "core" -> core
      [] client = "store" -> store
      [] client = "demo" -> demo

\* The caller makes a call only when it awaits no other.
Free == \A d \in DOMAIN calls : calls[d].pc = "idle"

\* The caller invokes a facade method on slot c: the method runs up to its
\* first await.  It has thrown (the promise is rejected with what it threw)
\* or _request has handed one request to fetch.
Started(client, method, via, args, effect) ==
    CASE effect.do = "throw" ->
             [Idle EXCEPT !.pc = "settled", !.client = client, !.method = method,
                          !.via = via, !.args = args,
                          !.outcome = Rejected(effect.error), !.settlements = 1]
      [] effect.do = "return" ->
             [Idle EXCEPT !.pc = "settled", !.client = client, !.method = method,
                          !.via = via, !.args = args,
                          !.outcome = Resolved(effect.value), !.settlements = 1]
      [] effect.do = "request" ->
             [Idle EXCEPT !.pc = "fetch", !.client = client, !.method = method,
                          !.via = via, !.args = args,
                          !.sent = <<FetchOf(client, effect.endpoint, effect.data)>>]
      [] effect.do = "fetch" ->
             [Idle EXCEPT !.pc = "fetch", !.client = client, !.method = method,
                          !.via = via, !.args = args, !.sent = <<effect.request>>]

\* A method can be called on an instance that exists only.
Begin(c, client, method, via, args, effect) ==
    /\ Instance(client) # NoClient
    /\ calls' = [calls EXCEPT ![c] = Started(client, method, via, args, effect)]
    /\ UNCHANGED <<core, store, demo, env, pager, server, cli>>

InvokeListBenchmarks(c) ==
    /\ Free
    /\ Begin(c, "core", "listBenchmarks", "method", <<>>, listBenchmarks)

InvokeViewBenchmark(c) ==
    /\ Free
    /\ \E b \in {Undefined, Str("store")} :
            Begin(c, "core", "viewBenchmark", "method", <<b>>, viewBenchmark(b))

InvokeStartSession(c) ==
    /\ Free
    /\ \E o \in SessionOptions :
            Begin(c, "core", "startSession", "method", <<o>>, startSession(o))

InvokeSessionStatus(c) ==
    /\ Free
    /\ \E id \in {Undefined, Str("s1")} :
            Begin(c, "core", "sessionStatus", "method", <<id>>, sessionStatus(id))

InvokeSearchSessions(c) ==
    /\ Free
    /\ \E cr \in Criteria :
            Begin(c, "core", "searchSessions", "method", <<cr>>, searchSessions(cr))

InvokeSubmitSession(c) ==
    /\ Free
    /\ \E id \in {Undefined, Str("s1")} :
            Begin(c, "core", "submitSession", "method", <<id>>, submitSession(id))

InvokeStartTask(c) ==
    /\ Free
    /\ \E t \in TaskArgs : Begin(c, "core", "startTask", "method", <<t>>, startTask(t))

InvokeCompleteTask(c) ==
    /\ Free
    /\ \E t \in TaskArgs : Begin(c, "core", "completeTask", "method", <<t>>, completeTask(t))

InvokeViewTask(c) ==
    /\ Free
    /\ \E since \in {Undefined, Null, Num(0), Num(1234)} :
            Begin(c, "core", "viewTask", "method", <<Str("task-1"), since>>,
                  viewTask(Str("task-1"), since))

InvokeLogLLM(c) ==
    /\ Free
    /\ \E o \in LogOptions : Begin(c, "core", "logLLM", "method", <<o>>, logLLM(o))

InvokeListProducts(c) ==
    /\ Free
    /\ \E o \in ListOptions :
            Begin(c, "store", "listProducts", "method", <<o>>, listProducts(o))

InvokeViewBasket(c) ==
    /\ Free
    /\ Begin(c, "store", "viewBasket", "method", <<>>, viewBasket)

InvokeAddToBasket(c) ==
    /\ Free
    /\ \E s \in Skus, q \in Quantities :
            Begin(c, "store", "addToBasket", "method", <<s, q>>, addToBasket(s, q))

InvokeRemoveFromBasket(c) ==
    /\ Free
    /\ \E s \in Skus, q \in Quantities :
            Begin(c, "store", "removeFromBasket", "method", <<s, q>>, removeFromBasket(s, q))

InvokeCheckout(c) ==
    /\ Free
    /\ Begin(c, "store", "checkout", "method", <<>>, checkout)

InvokeApplyCoupon(c) ==
    /\ Free
    /\ \E cp \in Coupons :
            Begin(c, "store", "applyCoupon", "method", <<cp>>, applyCoupon(cp))

InvokeRemoveCoupon(c) ==
    /\ Free
    /\ Begin(c, "store", "removeCoupon", "method", <<>>, removeCoupon)

InvokeStoreDispatch(c) ==
    /\ Free
    /\ \E r \in StoreRequests :
            Begin(c, "store", "dispatch", "dispatch", <<r>>, StoreClient_dispatch(r))

InvokeGetSecret(c) ==
    /\ Free
    /\ Begin(c, "demo", "getSecret", "method", <<>>, getSecret)

InvokeSubmitAnswer(c) ==
    /\ Free
    /\ \E a \in Answers :
            Begin(c, "demo", "submitAnswer", "method", <<a>>, submitAnswer(a))

InvokeDemoDispatch(c) ==
    /\ Free
    /\ \E r \in DemoRequests :
            Begin(c, "demo", "dispatch", "dispatch", <<r>>, DemoClient_dispatch(r))

\* A settlement through state shared by the calls of a client: every call
\* that still awaits on the same client settles with this outcome too.
Settle_sharedOutcome(c, response, outcome) ==
    /\ calls' = [d \in DOMAIN calls |->
                    IF d = c
                    THEN [calls[d] EXCEPT !.pc = "settled", !.response = response,
                                          !.outcome = outcome,
                                          !.settlements = calls[d].settlements + 1]
                    ELSE IF calls[d].pc \in {"fetch", "json"}
                            /\ calls[d].client = calls[c].client
                         THEN [calls[d] EXCEPT !.pc = "settled", !.outcome = outcome,
                                               !.settlements = calls[d].settlements + 1]
                         ELSE calls[d]]
    /\ UNCHANGED <<core, store, demo, env, pager, server, cli>>

\* The promise of a call settles, once.
Settle(c, response, outcome) ==
    /\ calls' = [calls EXCEPT ![c].pc = "settled", ![c].response = response,
                              ![c].outcome = outcome,
                              ![c].settlements = calls[c].settlements + 1]
    /\ UNCHANGED <<core, store, demo, env, pager, server, cli>>

\* fetch rejects (network failure): the catch block of _request runs.
FetchRejects(c) ==
    /\ calls[c].pc = "fetch"
    /\ \E m \in FetchErrors :
           Settle(c, NetworkError(m), CatchOf(calls[c].client, PlainError("TypeError", m)))

\* fetch resolves with a response; _request awaits response.json().
FetchResolves(c) ==
    /\ calls[c].pc = "fetch"
    /\ \E st \in HttpStatuses :
           calls' = [calls EXCEPT ![c].pc = "json", ![c].response = Response(st, Unread)]
    /\ UNCHANGED <<core, store, demo, env, pager, server, cli>>

\* response.json() rejects (the body is not JSON): the catch block runs.
JsonRejects(c) ==
    /\ calls[c].pc = "json"
    /\ \E m \in ParseErrors :
           Settle(c, Response(calls[c].response.status, Invalid(m)),
                  CatchOf(calls[c].client, PlainError("SyntaxError", m)))

\* response.json() resolves with the parsed body; _request checks it.
JsonResolves(c) ==
    /\ calls[c].pc = "json"
    /\ \E b \in Bodies :
           Settle(c, Response(calls[c].response.status, Parsed(b)),
                  ResultOf(calls[c].client, b))

\* The caller has taken the outcome; the slot is free for the next call.
Release(c) ==
    /\ calls[c].pc = "settled"
    /\ calls' = [calls EXCEPT ![c] = Idle]
    /\ UNCHANGED <<core, store, demo, env, pager, server, cli>>

Next ==
    \E c \in Calls :
        \/ InvokeListBenchmarks(c)
        \/ InvokeViewBenchmark(c)
        \/ InvokeStartSession(c)
        \/ InvokeSessionStatus(c)
        \/ InvokeSearchSessions(c)
        \/ InvokeSubmitSession(c)
        \/ InvokeStartTask(c)
        \/ InvokeCompleteTask(c)
        \/ InvokeViewTask(c)
        \/ InvokeLogLLM(c)
        \/ InvokeListProducts(c)
        \/ InvokeViewBasket(c)
        \/ InvokeAddToBasket(c)
        \/ InvokeRemoveFromBasket(c)
        \/ InvokeCheckout(c)
        \/ InvokeApplyCoupon(c)
        \/ InvokeRemoveCoupon(c)
        \/ InvokeStoreDispatch(c)
        \/ InvokeGetSecret(c)
        \/ InvokeSubmitAnswer(c)
        \/ InvokeDemoDispatch(c)
        \/ FetchRejects(c)
        \/ FetchResolves(c)
        \/ JsonRejects(c)
        \/ JsonResolves(c)
        \/ Release(c)

Spec == Init /\ [][Next]_vars

----------------------------------------------------------------------------
(* The life of the clients: the application constructs its ERC3 instance,  *)
(* obtains Store and Demo clients from it, and calls their methods.        *)

\* What the application passes to new ERC3(...), and what the environment
\* holds under ERC3_API_KEY.
ConstructorOptions ==
    {Undefined, Null} \cup
    {Only([apiKey |-> k, baseUrl |-> u]) :
        k \in {Undefined, Str(""), Str("key-123")},
        u \in {Undefined, Str("http://localhost:8080")}}
EnvKeys == {Undefined, Str(""), Str("env-key")}
\* The task handed to a factory: its ID, the task object, an object without
\* task_id, or nothing.
FactoryTaskArgs == {Str("task-2"), Obj([task_id |-> Str("task-2")]), Obj(NoFields), Null}

InitLifecycle ==
    /\ core = NoClient
    /\ store = NoClient
    /\ demo = NoClient
    /\ calls = [c \in Calls |-> Idle]
    /\ env \in {[ERC3_API_KEY |-> k] : k \in EnvKeys}
    /\ pager = NoPager
    /\ server = NoServer
    /\ cli = NoCli

\* new ERC3(options): the instance exists only if the constructor returns.
Construct(c) ==
    /\ Free
    /\ core = NoClient
    /\ \E options \in ConstructorOptions :
           LET effect == ERC3_constructor(options) IN
           /\ calls' = [calls EXCEPT ![c] =
                            Started("core", "constructor", "new", <<options>>, effect)]
           /\ core' = IF effect.do = "return" THEN effect.value ELSE core
    /\ UNCHANGED <<store, demo, env, pager, server, cli>>

\* store = client.getStoreClient(taskOrId)
GetStoreClient(c) ==
    /\ Free
    /\ core # NoClient
    /\ \E taskOrId \in FactoryTaskArgs :
           LET effect == getStoreClient(taskOrId) IN
           /\ calls' = [calls EXCEPT ![c] =
                            Started("core", "getStoreClient", "method", <<taskOrId>>, effect)]
           /\ store' = IF effect.do = "return" THEN effect.value ELSE store
    /\ UNCHANGED <<core, demo, env, pager, server, cli>>

\* demo = client.getDemoClient(taskOrId)
GetDemoClient(c) ==
    /\ Free
    /\ core # NoClient
    /\ \E taskOrId \in FactoryTaskArgs :
           LET effect == getDemoClient(taskOrId) IN
           /\ calls' = [calls EXCEPT ![c] =
                            Started("core", "getDemoClient", "method", <<taskOrId>>, effect)]
           /\ demo' = IF effect.do = "return" THEN effect.value ELSE demo
    /\ UNCHANGED <<core, store, env, pager, server, cli>>

NextLifecycle ==
    \E c \in Calls :
        \/ Construct(c)
        \/ GetStoreClient(c)
        \/ GetDemoClient(c)
        \/ InvokeListBenchmarks(c)
        \/ InvokeStartSession(c)
        \/ InvokeSearchSessions(c)
        \/ InvokeViewBasket(c)
        \/ InvokeAddToBasket(c)
        \/ InvokeGetSecret(c)
        \/ InvokeSubmitAnswer(c)
        \/ FetchRejects(c)
        \/ FetchResolves(c)
        \/ JsonRejects(c)
        \/ JsonResolves(c)
        \/ Release(c)

SpecLifecycle == InitLifecycle /\ [][NextLifecycle]_vars

----------------------------------------------------------------------------
(* The command-line front-ends: argument parsing.                          *)

\* The loop of parseArgs from index i on (indices start at 1 here): a word
\* that starts with -- takes the next word as its value, undefined when there
\* is none, and the loop skips that word; every other word is positional.
RECURSIVE ParseFrom(_, _, _)
ParseFrom(args, i, parsed) ==
    LET \* arg.startsWith('--')
        StartsWithDashes(arg) == Len(arg) >= 2 /\ SubSeq(arg, 1, 2) = "--"
        \* parsed[key] = value
        Put(key, value) ==
            Obj([k \in DOMAIN parsed.f \cup {key} |->
                    IF k = key THEN value ELSE parsed.f[k]])
    IN  IF i > Len(args) THEN parsed
        ELSE IF StartsWithDashes(args[i])
             THEN ParseFrom(args, i + 2,
                            Put(SubSeq(args[i], 3, Len(args[i])),
                                IF i + 1 <= Len(args) THEN Str(args[i + 1]) ELSE Undefined))
             ELSE ParseFrom(args, i + 1,
                            Put("_", Arr(Append(parsed.f["_"].items, Str(args[i])))))

\* parseArgs(args)
parseArgs(args) == ParseFrom(args, 1, Obj([k \in {"_"} |-> Arr(<<>>)]))

\* parsed._[0]
FirstPositional(parsed) ==
    IF Len(parsed.f["_"].items) >= 1 THEN parsed.f["_"].items[1] ELSE Undefined

\* The number the first n characters of s denote, s a string of decimal
\* digits (the only numbers given here).
RECURSIVE DigitsValue(_, _)
DigitsValue(s, n) ==
    LET ch == SubSeq(s, n, n)
        digit == CASE ch = "0" -> 0 [] ch = "1" -> 1 [] ch = "2" -> 2 [] ch = "3" -> 3
                   [] ch = "4" -> 4 [] ch = "5" -> 5 [] ch = "6" -> 6 [] ch = "7" -> 7
                   [] ch = "8" -> 8 [] ch = "9" -> 9
    IN  IF n = 0 THEN 0 ELSE 10 * DigitsValue(s, n - 1) + digit

\* parseInt(v) of such a string.

parseInt(v) == Num(DigitsValue(v.s, Len(v.s)))

----------------------------------------------------------------------------
(* The command handlers, up to their first await: each throws, or calls    *)
(* one facade method.                                                      *)

\* A handler awaits client.method(...args).
Call(client, method, args) == [do |-> "call", client |-> client, method |-> method, args |-> args]

\* getClient(): the ERC3 instance built from the environment.
getClient ==
    IF ~Truthy(env.ERC3_API_KEY)
    THEN Throw(PlainError("Error", "ERC3_API_KEY environment variable is required"))
    ELSE ERC3_constructor(Obj([apiKey |-> env.ERC3_API_KEY, baseUrl |-> env.ERC3_BASE_URL]))

\* A check that lets a command without --sku through.
Require_skuOptional(value, message, rest) ==
    IF ~Truthy(value) /\ message # "--sku is required"
    THEN Throw(PlainError("Error", message))
    ELSE rest

\* if (!value) throw new Error(message); otherwise go on with rest.
Require(value, message, rest) ==
    IF ~Truthy(value) THEN Throw(PlainError("Error", message)) ELSE rest

\* parsed.key ? parseInt(parsed.key) : fallback
IntOption(parsed, key, fallback) ==
    IF Truthy(Get(parsed, key)) THEN parseInt(Get(parsed, key)) ELSE fallback

\* The try block of handleCoreCommand.
CoreCommand(command, parsed) ==
    LET first == FirstPositional(parsed) IN
    CASE command = "benchmarks" -> Call("core", "listBenchmarks", <<>>)
      [] command = "benchmark" ->
             Require(first, "Benchmark ID is required",
                     Call("core", "viewBenchmark", <<first>>))
      [] command = "session:start" ->
             Require(first, "Benchmark ID is required",
             Require(Get(parsed, "workspace"), "--workspace is required",
             Require(Get(parsed, "name"), "--name is required",
                     Call("core", "startSession",
                          <<Obj([benchmark |-> first,
                                 workspace |-> Get(parsed, "workspace"),
                                 name |-> Get(parsed, "name"),
                                 architecture |-> Or(Get(parsed, "architecture"),
                                                     Str("x86_64"))])>>))))
      [] command = "session:status" ->
             Require(first, "Session ID is required",
                     Call("core", "sessionStatus", <<first>>))
      [] command = "session:search" ->
             Call("core", "searchSessions",
                  <<Only([workspace |-> IF Truthy(Get(parsed, "workspace"))
                                        THEN Get(parsed, "workspace") ELSE Undefined,
                          benchmark |-> IF Truthy(Get(parsed, "benchmark"))
                                        THEN Get(parsed, "benchmark") ELSE Undefined])>>)
      [] command = "session:submit" ->
             Require(first, "Session ID is required",
                     Call("core", "submitSession", <<first>>))
      [] command = "task:start" ->
             Require(first, "Task ID is required", Call("core", "startTask", <<first>>))
      [] command = "task:view" ->
             Require(first, "Task ID is required",
                     Call("core", "viewTask", <<first, IntOption(parsed, "since", Null)>>))
      [] command = "task:complete" ->
             Require(first, "Task ID is required", Call("core", "completeTask", <<first>>))
      [] command = "task:log" ->
             Require(first, "Task ID is required",
             Require(Get(parsed, "model"), "--model is required",
             Require(Get(parsed, "prompt-tokens"), "--prompt-tokens is required",
             Require(Get(parsed, "completion-tokens"), "--completion-tokens is required",
             Require(Get(parsed, "duration"), "--duration is required",
                     Call("core", "logLLM",
                          <<Obj([taskId |-> first,
                                 model |-> Get(parsed, "model"),
                                 usage |->
                                     Obj([prompt_tokens |->
                                              parseInt(Get(parsed, "prompt-tokens")),
                                          completion_tokens |->
                                              parseInt(Get(parsed, "completion-tokens")),
                                          total_tokens |->
                                              Num(parseInt(Get(parsed, "prompt-tokens")).n
                                                  + parseInt(Get(parsed,
                                                                 "completion-tokens")).n)]),
                                 durationSec |-> parseInt(Get(parsed, "duration"))])>>))))))
      [] OTHER -> Throw(PlainError("Error", "Unknown command: " \o command))

\* The try block of handleStoreCommand, up to the first await.
StoreCommand(command, parsed) ==
    Require(FirstPositional(parsed), "Task ID is required",
        CASE command = "store:products" ->
                 Call("store", "listProducts",
                      <<Obj([offset |-> IntOption(parsed, "offset", Num(0)),
                             limit |-> IntOption(parsed, "limit", Num(20))])>>)
          [] command = "store:basket" -> Call("store", "viewBasket", <<>>)
          [] command = "store:add" ->
                 Require(Get(parsed, "sku"), "--sku is required",
                         Call("store", "addToBasket",
                              <<Get(parsed, "sku"), IntOption(parsed, "quantity", Num(1))>>))
          [] command = "store:remove" ->
                 Require(Get(parsed, "sku"), "--sku is required",
                         Call("store", "removeFromBasket",
                              <<Get(parsed, "sku"), IntOption(parsed, "quantity", Num(1))>>))
          [] command = "store:coupon:apply" ->
                 Require(Get(parsed, "coupon"), "--coupon is required",
                         Call("store", "applyCoupon", <<Get(parsed, "coupon")>>))
          [] command = "store:coupon:remove" -> Call("store", "removeCoupon", <<>>)
          [] command = "store:checkout" -> Call("store", "checkout", <<>>)
          [] OTHER -> Throw(PlainError("Error", "Unknown command: " \o command)))

\* The try block of handleDemoCommand, up to the first await.
DemoCommand(command, parsed) ==
    Require(FirstPositional(parsed), "Task ID is required",
        CASE command = "demo:secret" -> Call("demo", "getSecret", <<>>)
          [] command = "demo:answer" ->
                 Require(Get(parsed, "answer"), "--answer is required",
                         Call("demo", "submitAnswer", <<Get(parsed, "answer")>>))
          [] OTHER -> Throw(PlainError("Error", "Unknown command: " \o command)))

\* client.method(...args) of a call a handler makes.
Facade(method, args) ==
    CASE method = "listBenchmarks" -> listBenchmarks
      [] method = "viewBenchmark" -> viewBenchmark(args[1])
      [] method = "startSession" -> startSession(args[1])
      [] method = "sessionStatus" -> sessionStatus(args[1])
      [] method = "searchSessions" -> searchSessions(args[1])
      [] method = "submitSession" -> submitSession(args[1])
      [] method = "startTask" -> startTask(args[1])
      [] method = "viewTask" -> viewTask(args[1], args[2])
      [] method = "completeTask" -> completeTask(args[1])
      [] method = "logLLM" -> logLLM(args[1])
      [] method = "listProducts" -> listProducts(args[1])
      [] method = "viewBasket" -> viewBasket
      [] method = "addToBasket" -> addToBasket(args[1], args[2])
      [] method = "removeFromBasket" -> removeFromBasket(args[1], args[2])
      [] method = "applyCoupon" -> applyCoupon(args[1])
      [] method = "removeCoupon" -> removeCoupon
      [] method = "checkout" -> checkout
      [] method = "getSecret" -> getSecret
      [] method = "submitAnswer" -> submitAnswer(args[1])

----------------------------------------------------------------------------
(* What a handler does with the result of an awaited call.                 *)

\* console.log of one kind of output: "json", "text" or a "line".
Printed(kind) == [do |-> "print", kind |-> kind]

\* items.forEach(item => ... (item.price).toFixed(2)) for a truthy items
\* whose length is > 0 throws for an item without a numeric price (toFixed
\* exists on numbers only), and for a string (it has no forEach).
EachPriceThrows(items) ==
    \/ items.t = "string" /\ items.s # ""
    \/ items.t = "array"
        /\ \E i \in 1..Len(items.items) :
               \/ Nullish(items.items[i])
               \/ Get(items.items[i], "price").t # "number"

\* formatBasket(basket), and the order summary of store:checkout.
formatBasket(basket) ==
    IF \/ Nullish(basket)
       \/ \E k \in {"subtotal", "discount", "total"} :
              Or(Get(basket, k), Num(0)).t # "number"
       \/ EachPriceThrows(Get(basket, "items"))
    THEN Throw(PlainError("TypeError", "toFixed is not a function"))
    ELSE Printed("text")

\* formatProducts(result)
formatProducts(result) ==
    IF Nullish(result) \/ EachPriceThrows(Get(result, "products"))
    THEN Throw(PlainError("TypeError", "toFixed is not a function"))
    ELSE Printed("text")

\* Lines that interpolate result.field.
PrintsFieldsOf(result) ==
    IF Nullish(result)
    THEN Throw(NullishAccess(TemplateStr(result)))
    ELSE Printed("text")

\* process.exit(code) after what was reported: "help", "usage" (unknown
\* command), "api" (message, status and code of an ApiException), "generic"
\* (the message of any other error) or "none".
Exit(code, report, error) ==
    [do |-> "exit", code |-> code, report |-> report, error |-> error]
NoError == [name |-> "none"]

\* The catch block of main, reached by what a handler throws.
Main_catch(error) == Exit(1, "generic", error)

\* The catch block of a handler.
Handler_catch_exitsCleanly(error) ==
    IF error.name = "ApiException" THEN Exit(1, "api", error) ELSE Exit(0, "none", error)

Handler_catch(error) ==
    IF error.name = "ApiException" THEN Exit(1, "api", error) ELSE Main_catch(error)

\* The statements of a case after its only await.
Render(command, parsed, result) ==
    CASE command \in {"store:add", "store:remove"} -> PrintsFieldsOf(result)
      [] command = "store:products" ->
             IF Truthy(Get(parsed, "json")) THEN Printed("json") ELSE formatProducts(result)
      [] command = "store:basket" ->
             IF Truthy(Get(parsed, "json")) THEN Printed("json") ELSE formatBasket(result)
      [] command = "store:checkout" -> formatBasket(result)
      [] command = "demo:secret" ->
             IF Truthy(Get(parsed, "json")) THEN Printed("json") ELSE PrintsFieldsOf(result)
      [] command = "demo:answer" -> Printed("line")
      [] OTHER -> Printed("json")

\* The two coupon commands await a second call.
CouponCommands == {"store:coupon:apply", "store:coupon:remove"}

\* A handler resumes after its await number step (1 or 2) with the outcome
\* of the awaited call: it awaits the next call, or the process ends.
Resume_viewsBasketAnyway(command, parsed, step, outcome) ==
    IF command \in CouponCommands /\ step = 1
    THEN Call("store", "viewBasket", <<>>)
    ELSE IF outcome.kind = "rejected"
         THEN Handler_catch(outcome.error)
         ELSE LET shown == IF command \in CouponCommands
                           THEN formatBasket(outcome.value)
                           ELSE Render(command, parsed, outcome.value)
              IN  IF shown.do = "throw" THEN Handler_catch(shown.error)
                  ELSE Exit(0, shown.kind, NoError)

Resume(command, parsed, step, outcome) ==
    IF outcome.kind = "rejected"
    THEN Handler_catch(outcome.error)
    ELSE IF command \in CouponCommands /\ step = 1
         THEN Call("store", "viewBasket", <<>>)
         ELSE LET shown == IF command \in CouponCommands
                           THEN formatBasket(outcome.value)
                           ELSE Render(command, parsed, outcome.value)
              IN  IF shown.do = "throw" THEN Handler_catch(shown.error)
                  ELSE Exit(0, shown.kind, NoError)

----------------------------------------------------------------------------
(* The front-ends: erc3 (all commands), erc3-core (the core commands       *)
(* only), erc3-store and erc3-demo.                                        *)

CoreNames ==
    {"benchmarks", "benchmark", "session:start", "session:status", "session:search",
     "session:submit", "task:start", "task:view", "task:complete", "task:log"}
StoreNames ==
    {"products", "basket", "add", "remove", "coupon:apply", "coupon:remove", "checkout"}
DemoNames == {"secret", "answer"}
\* Keys every object literal inherits: COMMANDS[key] is truthy for them.
InheritedNames == {"constructor"}

\* main() up to the call of the handler, which is entered with a command and
\* its arguments.
Main(bin, argv) ==
    IF Len(argv) = 0 \/ argv[1] \in {"--help", "-h"}
    THEN Exit(0, "help", NoError)
    ELSE LET command == argv[1]
             commandArgs == Tail(argv)
             unknown == Exit(1, "usage", NoError)
             Handle(handler, name) ==
                 [do |-> "handle", handler |-> handler, command |-> name,
                  args |-> commandArgs]
         IN  CASE bin = "erc3" ->
                      IF command \in CoreNames
                      THEN Handle("core", command)
                      ELSE IF command \in {"store:" \o n : n \in StoreNames}
                      THEN Handle("store", command)
                      ELSE IF command \in {"demo:" \o n : n \in DemoNames}
                      THEN Handle("demo", command)
                      ELSE IF command \in InheritedNames
                      THEN Main_catch(PlainError("TypeError",
                                                 "COMMANDS[command].handler is not a function"))
                      ELSE unknown
               [] bin = "erc3-core" ->
                      IF command \in CoreNames \cup InheritedNames
                      THEN Handle("core", command)
                      ELSE unknown
               [] bin = "erc3-store" ->
                      IF command \in StoreNames \cup InheritedNames
                      THEN Handle("store", "store:" \o command)
                      ELSE unknown
               [] bin = "erc3-demo" ->
                      IF command \in DemoNames \cup InheritedNames
                      THEN Handle("demo", "demo:" \o command)
                      ELSE unknown

\* A handler from its entry to its first await, or to the end of the
\* process: what getClient throws passes to main, what the try block throws
\* passes through the handler's catch block.
Handler(handler, command, parsed) ==
    IF getClient.do = "throw"
    THEN Main_catch(getClient.error)
    ELSE LET first == CASE handler = "core" -> CoreCommand(command, parsed)
                        [] handler = "store" -> StoreCommand(command, parsed)
                        [] handler = "demo" -> DemoCommand(command, parsed)
         IN  IF first.do = "throw" THEN Handler_catch(first.error) ELSE first

\* The command lines tried, per front-end.
CommandLines ==
    {[bin |-> "erc3", argv |-> a] : a \in
        {<<>>, <<"--help">>, <<"bogus">>, <<"constructor">>, <<"benchmarks">>,
         <<"store:products", "task-1", "--limit", "3">>,
         <<"store:coupon:apply", "task-1", "--coupon", "SAVE10">>,
         <<"demo:secret", "task-1">>}} \cup
    {[bin |-> "erc3-core", argv |-> a] : a \in
        {<<"-h">>, <<"store:products", "task-1">>, <<"constructor">>,
         <<"benchmarks">>, <<"benchmark">>, <<"benchmark", "store">>,
         <<"session:start", "store", "--workspace", "w", "--name", "n">>,
         <<"session:start", "store", "--workspace", "w", "--name", "n",
           "--architecture", "arm64">>,
         <<"session:start", "store", "--name", "n">>,
         <<"session:start", "store", "--workspace", "w">>,
         <<"session:start", "--workspace", "w", "--name", "n">>,
         <<"session:status">>, <<"session:status", "s1">>,
         <<"session:search">>, <<"session:search", "--workspace", "w">>,
         <<"session:submit">>, <<"session:submit", "s1">>,
         <<"task:start">>, <<"task:start", "task-1">>,
         <<"task:view">>, <<"task:view", "task-1">>,
         <<"task:view", "task-1", "--since", "12">>,
         <<"task:complete">>, <<"task:complete", "task-1">>,
         <<"task:log", "task-1", "--model", "m", "--prompt-tokens", "10",
           "--completion-tokens", "5", "--duration", "2">>,
         <<"task:log", "--model", "m", "--prompt-tokens", "10",
           "--completion-tokens", "5", "--duration", "2">>,
         <<"task:log", "task-1", "--prompt-tokens", "10",
           "--completion-tokens", "5", "--duration", "2">>,
         <<"task:log", "task-1", "--model", "m", "--completion-tokens", "5",
           "--duration", "2">>,
         <<"task:log", "task-1", "--model", "m", "--prompt-tokens", "10",
           "--duration", "2">>,
         <<"task:log", "task-1", "--model", "m", "--prompt-tokens", "10",
           "--completion-tokens", "5">>}} \cup
    {[bin |-> "erc3-store", argv |-> a] : a \in
        {<<"--help">>, <<"refund", "task-1">>, <<"constructor", "task-1">>,
         <<"products">>, <<"products", "task-1">>, <<"products", "task-1", "--json">>,
         <<"products", "task-1", "--json", "true">>, <<"products", "--json", "task-1">>,
         <<"products", "task-1", "--offset", "3", "--limit", "2">>,
         <<"basket">>, <<"basket", "task-1">>, <<"basket", "task-1", "--json">>,
         <<"basket", "task-1", "--json", "1">>,
         <<"add", "task-1">>, <<"add", "task-1", "--sku">>,
         <<"add", "task-1", "--sku", "gpu-h100">>,
         <<"add", "task-1", "--sku", "gpu-h100", "--quantity", "2">>,
         <<"add", "--sku", "gpu-h100">>,
         <<"remove", "task-1">>, <<"remove", "task-1", "--sku", "gpu-h100">>,
         <<"coupon:apply">>, <<"coupon:apply", "task-1">>,
         <<"coupon:apply", "task-1", "--coupon", "SAVE10">>,
         <<"coupon:remove">>, <<"coupon:remove", "task-1">>,
         <<"checkout">>, <<"checkout", "task-1">>}} \cup
    {[bin |-> "erc3-demo", argv |-> a] : a \in
        {<<"-h">>, <<"secret">>, <<"secret", "task-1">>, <<"secret", "task-1", "--json">>,
         <<"secret", "task-1", "--json", "yes">>,
         <<"answer">>, <<"answer", "task-1">>, <<"answer", "task-1", "--answer", "42">>}}

\* A front-end process about to run main() on its command line.
InitCli ==
    /\ core = NoClient
    /\ store = NoClient
    /\ demo = NoClient
    /\ calls = [c \in Calls |-> Idle]
    /\ env \in {[ERC3_API_KEY |-> k, ERC3_BASE_URL |-> u] :
                    k \in {Undefined, Str("env-key")},
                    u \in {Undefined, Str("http://localhost:8080")}}
    /\ pager = NoPager
    /\ server = NoServer
    /\ cli \in {[pc |-> "start", bin |-> l.bin, argv |-> l.argv, command |-> "",
                  parsed |-> Undefined, step |-> 0, exit |-> Undefined,
                  requests |-> <<>>, outcomes |-> <<>>, printed |-> <<>>] :
                 l \in CommandLines}

\* main() runs to the first await of the handler, or to the end of the
\* process.
CliStart(c) ==
    /\ cli.pc = "start"
    /\ \E main \in {Main(cli.bin, cli.argv)} :
         IF main.do = "exit"
         THEN /\ cli' = [cli EXCEPT !.pc = "exited", !.exit = main]
              /\ UNCHANGED <<core, store, demo, calls, env, pager, server>>
         ELSE \E parsed \in {parseArgs(main.args)} :
              \E next \in {Handler(main.handler, main.command, parsed)} :
              \E taskId \in {FirstPositional(parsed)} :
                /\ UNCHANGED <<env, pager, server>>
                /\ core' = IF getClient.do = "return" THEN getClient.value ELSE NoClient
                /\ store' = IF core' # NoClient /\ main.handler = "store" /\ Truthy(taskId)
                            THEN getStoreClient(taskId)'.value ELSE NoClient
                /\ demo' = IF core' # NoClient /\ main.handler = "demo" /\ Truthy(taskId)
                           THEN getDemoClient(taskId)'.value ELSE NoClient
                /\ IF next.do = "exit"
                   THEN /\ calls' = calls
                        /\ cli' = [cli EXCEPT !.pc = "exited", !.exit = next,
                                              !.command = main.command,
                                              !.parsed = parsed]
                   ELSE /\ calls' = [calls EXCEPT ![c] =
                                        Started(next.client, next.method, "method", next.args,
                                                Facade(next.method, next.args))']
                        /\ cli' = [cli EXCEPT !.pc = "awaiting", !.command = main.command,
                                              !.parsed = parsed, !.step = 1,
                                              !.requests = calls'[c].sent]

\* The awaited call has settled and the handler resumes.
CliResume(c) ==
    /\ cli.pc = "awaiting"
    /\ calls[c].pc = "settled"
    /\ \E next \in {Resume(cli.command, cli.parsed, cli.step, calls[c].outcome)} :
         IF next.do = "exit"
         THEN /\ calls' = [calls EXCEPT ![c] = Idle]
              /\ cli' = [cli EXCEPT
                             !.pc = "exited", !.exit = next,
                             !.outcomes = Append(cli.outcomes, calls[c].outcome),
                             !.printed = IF next.code = 0
                                         THEN Append(cli.printed, next.report)
                                         ELSE cli.printed]
         ELSE /\ calls' = [calls EXCEPT ![c] =
                              Started(next.client, next.method, "method", next.args,
                                      Facade(next.method, next.args))]
              /\ cli' = [cli EXCEPT !.step = cli.step + 1,
                                    !.outcomes = Append(cli.outcomes, calls[c].outcome),
                                    !.printed = Append(cli.printed, "line"),
                                    !.requests = cli.requests \o calls'[c].sent]
    /\ UNCHANGED <<core, store, demo, env, pager, server>>

NextCli ==
    \E c \in Calls :
        \/ CliStart(c)
        \/ FetchRejects(c)
        \/ FetchResolves(c)
        \/ JsonRejects(c)
        \/ JsonResolves(c)
        \/ CliResume(c)

SpecCli == InitCli /\ [][NextCli]_vars

----------------------------------------------------------------------------
(* The helper getApiKey, called before any client exists.                  *)

InvokeGetApiKey(c) ==
    /\ Free
    /\ \E email \in {Undefined, Str(""), Str("me@example.com")},
          baseUrl \in {Undefined, Str("http://localhost:8080")} :
           calls' = [calls EXCEPT ![c] =
                        Started("helper", "getApiKey", "function", <<email, baseUrl>>,
                                getApiKey(email, baseUrl))]
    /\ UNCHANGED <<core, store, demo, env, pager, server, cli>>

NextHelper ==
    \E c \in Calls :
        \/ InvokeGetApiKey(c)
        \/ FetchRejects(c)
        \/ FetchResolves(c)
        \/ JsonRejects(c)
        \/ JsonResolves(c)
        \/ Release(c)

SpecHelper == InitLifecycle /\ [][NextHelper]_vars

----------------------------------------------------------------------------
(* Concurrent calls: the application starts calls without awaiting the     *)
(* previous one, on the same instance or on different ones.                *)

ConcurrentCalls == {"c1", "c2"}

InitConcurrent ==
    /\ core = [apiKey |-> Str("key-123"), baseUrl |-> Str(DefaultBaseUrl)]
    /\ store = [baseUrl |-> Str(DefaultBaseUrl), taskId |-> Str("task-1")]
    /\ demo = [baseUrl |-> Str(DefaultBaseUrl), taskId |-> Str("task-1")]
    /\ calls = [c \in ConcurrentCalls |-> Idle]
    /\ env = [ERC3_API_KEY |-> Undefined]
    /\ pager = NoPager
    /\ server = NoServer
    /\ cli = NoCli

CallStartTask(c) ==
    /\ calls[c].pc = "idle"
    /\ \E t \in {Str("task-1"), Obj([task_id |-> Str("task-1")]), Null} :
           Begin(c, "core", "startTask", "method", <<t>>, startTask(t))

CallSearchSessions(c) ==
    /\ calls[c].pc = "idle"
    /\ \E cr \in {Obj([workspace |-> Str("w")])} :
           Begin(c, "core", "searchSessions", "method", <<cr>>, searchSessions(cr))

CallAddToBasket(c) ==
    /\ calls[c].pc = "idle"
    /\ \E s \in {Str("SKU-1")}, q \in Quantities :
           Begin(c, "store", "addToBasket", "method", <<s, q>>, addToBasket(s, q))

CallSubmitAnswer(c) ==
    /\ calls[c].pc = "idle"
    /\ \E a \in {Str("abc"), Num(42)} :
           Begin(c, "demo", "submitAnswer", "method", <<a>>, submitAnswer(a))

NextConcurrent ==
    \E c \in ConcurrentCalls :
        \/ CallStartTask(c)
        \/ CallSearchSessions(c)
        \/ CallAddToBasket(c)
        \/ CallSubmitAnswer(c)
        \/ FetchRejects(c)
        \/ FetchResolves(c)
        \/ JsonRejects(c)
        \/ JsonResolves(c)
        \/ Release(c)

SpecConcurrent == InitConcurrent /\ [][NextConcurrent]_vars

----------------------------------------------------------------------------
(* The pagination loop of the store example, run against a store that      *)
(* pages through a finite catalog as the Store README documents it.        *)

\* The largest catalog, the page sizes and the offsets the loop starts from.
MaxCatalog == 45
PageLimits == {1, 7, 20}
StartOffsets == {0, 3}

\* The i-th product of the catalog.
Product(i) == Obj([sku |-> Str("sku-" \o NatToStr(i))])

\* The store's answer to /products/list: the products from offset on, at most
\* limit of them, and the offset of the next page, or -1 after the last page.
ProductsList(offset, limit) ==
    LET last == IF offset + limit < server.products THEN offset + limit
                ELSE server.products
    IN  Obj([products |-> Arr([i \in 1..(IF last > offset THEN last - offset ELSE 0) |->
                                  Product(offset + i)]),
             next_offset |-> Num(IF offset + limit < server.products
                                 THEN offset + limit ELSE -1)])

\* The loop before its first call: allProducts = [], offset, pageNum = 1.
\* nextOffsets records the next_offset of every page received.
PagerAt(offset, limit) ==
    [pc |-> "loop", start |-> Num(offset), offset |-> Num(offset), limit |-> Num(limit),
     pageNum |-> 1, allProducts |-> <<>>, nextOffsets |-> <<>>]

\* The body of the loop after the await, with a mistake: offset is not advanced.
PagerAfter_keepsOffset(result) ==
    IF Nullish(result) \/ Get(result, "products").t # "array"
    THEN [pager EXCEPT !.pc = "failed"]
    ELSE IF Get(result, "next_offset") = Num(-1)
         THEN [pager EXCEPT !.pc = "done",
                            !.allProducts = @ \o Get(result, "products").items,
                            !.nextOffsets = Append(@, Get(result, "next_offset"))]
         ELSE [pager EXCEPT !.pc = "loop",
                            !.allProducts = @ \o Get(result, "products").items,
                            !.pageNum = @ + 1,
                            !.nextOffsets = Append(@, Get(result, "next_offset"))]

\* The body of the loop after the await: the page is collected; the loop
\* breaks when next_offset === -1 and otherwise continues from next_offset.
PagerAfter(result) ==
    IF Nullish(result) \/ Get(result, "products").t # "array"
    THEN [pager EXCEPT !.pc = "failed"]
    ELSE IF Get(result, "next_offset") = Num(-1)
         THEN [pager EXCEPT !.pc = "done",
                            !.allProducts = @ \o Get(result, "products").items,
                            !.nextOffsets = Append(@, Get(result, "next_offset"))]
         ELSE [pager EXCEPT !.pc = "loop",
                            !.allProducts = @ \o Get(result, "products").items,
                            !.offset = Get(result, "next_offset"),
                            !.pageNum = @ + 1,
                            !.nextOffsets = Append(@, Get(result, "next_offset"))]

InitPagination ==
    /\ core = [apiKey |-> Str("key-123"), baseUrl |-> Str(DefaultBaseUrl)]
    /\ store = [baseUrl |-> Str(DefaultBaseUrl), taskId |-> Str("task-1")]
    /\ demo = NoClient
    /\ calls = [c \in Calls |-> Idle]
    /\ env = [ERC3_API_KEY |-> Undefined]
    /\ server \in {[products |-> n] : n \in 0..MaxCatalog}
    /\ cli = NoCli
    /\ pager \in {PagerAt(o, l) : o \in StartOffsets, l \in PageLimits}

\* await store.listProducts({ offset, limit }) at the top of the loop.
LoopCall(c) ==
    /\ pager.pc = "loop"
    /\ calls[c].pc = "idle"
    /\ LET options == Obj([offset |-> pager.offset, limit |-> pager.limit]) IN
       calls' = [calls EXCEPT ![c] =
                    Started("store", "listProducts", "method", <<options>>,
                            listProducts(options))]
    /\ pager' = [pager EXCEPT !.pc = "await"]
    /\ UNCHANGED <<core, store, demo, env, server, cli>>

\* The store answers the request with the page it asks for.
ServerResponds(c) ==
    /\ calls[c].pc = "json"
    /\ LET asked == calls[c].sent[1].body.json
           page == ProductsList(Get(asked, "offset").n, Get(asked, "limit").n)
       IN  Settle(c, Response(calls[c].response.status, Parsed(page)),
                  ResultOf(calls[c].client, page))

\* The awaited call has settled: a rejection leaves the loop as an exception,
\* a result runs the rest of the loop body.
LoopStep(c) ==
    /\ pager.pc = "await"
    /\ calls[c].pc = "settled"
    /\ pager' = IF calls[c].outcome.kind = "rejected"
                THEN [pager EXCEPT !.pc = "failed"]
                ELSE PagerAfter(calls[c].outcome.value)
    /\ calls' = [calls EXCEPT ![c] = Idle]
    /\ UNCHANGED <<core, store, demo, env, server, cli>>

NextPagination ==
    \E c \in Calls :
        \/ LoopCall(c)
        \/ FetchRejects(c)
        \/ FetchResolves(c)
        \/ JsonRejects(c)
        \/ ServerResponds(c)
        \/ LoopStep(c)

\* The event loop runs every step that is ready, and the transport answers
\* or fails in finite time.
SpecPagination == InitPagination /\ [][NextPagination]_vars /\ WF_vars(NextPagination)

----------------------------------------------------------------------------
(* Properties.                                                             *)

Settled(c) == calls[c].pc = "settled"
\* The call got a response whose body parsed as JSON.
GotBody(c) == calls[c].response.kind = "response" /\ calls[c].response.json.kind = "parsed"
BodyOf(c) == calls[c].response.json.value
\* The transport failed: fetch rejected, or the body was not JSON.
TransportFailed(c) ==
    \/ calls[c].response.kind = "network-error"
    \/ calls[c].response.kind = "response" /\ calls[c].response.json.kind = "invalid"
FailureMessage(c) ==
    IF calls[c].response.kind = "network-error"
    THEN calls[c].response.message
    ELSE calls[c].response.json.message
\* The body is {status: N, error: "msg", code: "C", ...} with N >= 400.
IsErrorBody(b) ==
    /\ b.t = "object"
    /\ {"status", "error", "code"} \subseteq DOMAIN b.f
    /\ b.f["status"].t = "number" /\ b.f["status"].n >= 400
    /\ b.f["error"].t = "string"
    /\ b.f["code"].t = "string"
\* The body carries a status field that is present and >= 400.
HasErrorStatus(b) ==
    /\ b.t = "object"
    /\ "status" \in DOMAIN b.f
    /\ b.f["status"].t = "number" /\ b.f["status"].n >= 400
\* The JSON object the single request of call c carries.
SentBody(c) == calls[c].sent[1].body.json

C2_TransportFailureWrapped ==
    \A c \in Calls :
        (Settled(c) /\ TransportFailed(c)) =>
            /\ calls[c].outcome.kind = "rejected"
            /\ calls[c].outcome.error.name = "ApiException"
            /\ calls[c].outcome.error.status = Num(500)
            /\ calls[c].outcome.error.code = Str("REQUEST_FAILED")
            /\ calls[c].outcome.error.detail = Str(FailureMessage(c))

C2_Witness ==
    \E c \in Calls :
        /\ Settled(c)
        /\ calls[c].client = "store"
        /\ calls[c].response.kind = "response"
        /\ calls[c].response.json.kind = "invalid"
        /\ calls[c].outcome.kind = "rejected"

\* C3, as stated: every body that parses as JSON (null included) and carries
\* no status >= 400 resolves the call with exactly that body.
C3_ParsedBodyReturned ==
    \A c \in Calls :
        (Settled(c) /\ GotBody(c) /\ ~HasErrorStatus(BodyOf(c))) =>
            calls[c].outcome = Resolved(BodyOf(c))

\* C4, as stated: every invocation of an endpoint method issues exactly one
\* request and its outcome is delivered exactly once.
C4_ExactlyOneRequest ==
    \A c \in Calls :
        (Settled(c) /\ calls[c].via = "method") =>
            Len(calls[c].sent) = 1 /\ calls[c].settlements = 1

\* C5, as stated: every error an endpoint method surfaces is an ApiException,
\* whatever the arguments.
C5_OnlyApiException ==
    \A c \in Calls :
        (Settled(c) /\ calls[c].via = "method" /\ calls[c].outcome.kind = "rejected") =>
            calls[c].outcome.error.name = "ApiException"

\* C6: for every task ID X, startTask(X) and startTask({task_id: X}) send
\* the same body {task_id: X} to /tasks/start, and completeTask(X) and
\* completeTask({task_id: X}) send the same body {task_id: X} to /tasks/complete.
C6_TaskArgumentForms ==
    \A c \in Calls : \A x \in TaskIds :
        (/\ calls[c].method \in {"startTask", "completeTask"}
         /\ calls[c].args[1] \in {Str(x), Obj([task_id |-> Str(x)])}) =>
            calls[c].sent =
                <<[url |-> TemplateStr(core.baseUrl) \o
                       (IF calls[c].method = "startTask" THEN "/tasks/start"
                        ELSE "/tasks/complete"),
                   method |-> "POST",
                   headers |-> ContentTypeJson,
                   body |-> [json |-> Obj([task_id |-> Str(x)])]]>>

C6_Witness ==
    \E c \in Calls :
        /\ Settled(c)
        /\ calls[c].method = "startTask"
        /\ calls[c].args[1] = Str("task-1")
        /\ calls[c].outcome.kind = "resolved"
        /\ SentBody(c) = Obj([task_id |-> Str("task-1")])

\* The fields a Store or Demo tool reads from a dispatched request, with the
\* defaults of the method it stands for.
WireBody(request) ==
    LET tool == Get(request, "tool") IN
    CASE tool = Str("/products/list") ->
             Obj([tool |-> tool,
                  offset |-> IF "offset" \in DOMAIN request.f THEN request.f["offset"] ELSE Num(0),
                  limit |-> IF "limit" \in DOMAIN request.f THEN request.f["limit"] ELSE Num(20)])
      [] tool \in {Str("/basket/add"), Str("/basket/remove")} ->
             Only([tool |-> tool, sku |-> Get(request, "sku"),
                   quantity |-> IF "quantity" \in DOMAIN request.f THEN request.f["quantity"]
                                ELSE Num(1)])
      [] tool = Str("/coupon/apply") -> Only([tool |-> tool, coupon |-> Get(request, "coupon")])
      [] tool = Str("/answer") -> Obj([tool |-> tool, answer |-> String(Get(request, "answer"))])
      [] OTHER -> Obj([tool |-> tool])

\* The method a tool stands for, called directly with the fields of the request.
DirectCall(request) ==
    LET tool == Get(request, "tool") IN
    CASE tool = Str("/products/list") ->
             listProducts(Only([offset |-> Get(request, "offset"), limit |-> Get(request, "limit")]))
      [] tool = Str("/basket/view") -> viewBasket
      [] tool = Str("/basket/add") -> addToBasket(Get(request, "sku"), Get(request, "quantity"))
      [] tool = Str("/basket/remove") ->
             removeFromBasket(Get(request, "sku"), Get(request, "quantity"))
      [] tool = Str("/basket/checkout") -> checkout
      [] tool = Str("/coupon/apply") -> applyCoupon(Get(request, "coupon"))
      [] tool = Str("/coupon/remove") -> removeCoupon
      [] tool = Str("/secret") -> getSecret
      [] tool = Str("/answer") -> submitAnswer(Get(request, "answer"))

\* The request names a tool of the client the call runs on.
KnownTool(c) ==
    /\ calls[c].args[1].t = "object"
    /\ Get(calls[c].args[1], "tool").t = "string"
    /\ Get(calls[c].args[1], "tool").s \in
           (IF calls[c].client = "store" THEN StoreTools ELSE DemoTools)

\* C7: dispatch(request), for a request naming one of the client's tools,
\* issues exactly the request the matching method issues when called with the
\* fields of the request (URL and body, with offset 0, limit 20 and quantity 1
\* for absent fields), and settles as that method does.
C7_DispatchForwards ==
    \A c \in Calls :
        (calls[c].via = "dispatch" /\ KnownTool(c)) =>
            LET request == calls[c].args[1]
                direct == DirectCall(request)
                prefix == IF calls[c].client = "store"
                          THEN TemplateStr(store.baseUrl) \o "/store/" \o TemplateStr(store.taskId)
                          ELSE TemplateStr(demo.baseUrl) \o "/demo/" \o TemplateStr(demo.taskId)
            IN  /\ calls[c].sent =
                       <<[url |-> prefix \o Get(request, "tool").s,
                          method |-> "POST",
                          headers |-> ContentTypeJson,
                          body |-> [json |-> WireBody(request)]]>>
                /\ direct.do = "request"
                /\ calls[c].sent = <<FetchOf(calls[c].client, direct.endpoint, direct.data)>>
                /\ (Settled(c) /\ GotBody(c)) =>
                       calls[c].outcome = ResultOf(calls[c].client, BodyOf(c))
                /\ (Settled(c) /\ TransportFailed(c)) =>
                       calls[c].outcome.error.code = Str("REQUEST_FAILED")

C7_Witness ==
    \E c \in Calls :
        /\ Settled(c)
        /\ calls[c].via = "dispatch"
        /\ calls[c].client = "store"
        /\ calls[c].args[1] = Obj([tool |-> Str("/products/list"), limit |-> Num(5)])
        /\ SentBody(c) = Obj([tool |-> Str("/products/list"), offset |-> Num(0), limit |-> Num(5)])
        /\ calls[c].outcome.kind = "resolved"

\* C8: dispatch, given a request whose tool is not in the client's tool set
\* (a missing tool included), rejects with a plain Error that is not an
\* ApiException and issues no outbound request.
C8_UnknownToolRejected ==
    \A c \in Calls :
        (calls[c].via = "dispatch" /\ calls[c].args[1].t = "object" /\ ~KnownTool(c)) =>
            /\ Settled(c)
            /\ calls[c].sent = <<>>
            /\ calls[c].outcome.kind = "rejected"
            /\ calls[c].outcome.error.name = "Error"
            /\ calls[c].outcome.error.name # "ApiException"

C8_Witness ==
    \E c \in Calls :
        /\ Settled(c)
        /\ calls[c].via = "dispatch"
        /\ calls[c].client = "demo"
        /\ Get(calls[c].args[1], "tool") = Str("/basket/view")
        /\ calls[c].outcome.kind = "rejected"
        /\ calls[c].outcome.error.message = Str("Unknown tool: /basket/view")

\* C9: in every request a StoreClient or DemoClient sends, the body's tool
\* field equals the path suffix appended to /store/{taskId} (resp.
\* /demo/{taskId}) in the URL, and the suffix is an endpoint of the inventory.
C9_ToolEqualsPath ==
    \A c \in Calls :
        \A i \in 1..Len(calls[c].sent) :
            LET q == calls[c].sent[i] IN
            /\ calls[c].client = "store" =>
                   \E suffix \in StoreTools :
                       /\ q.url = TemplateStr(store.baseUrl) \o "/store/"
                                      \o TemplateStr(store.taskId) \o suffix
                       /\ Get(q.body.json, "tool") = Str(suffix)
            /\ calls[c].client = "demo" =>
                   \E suffix \in DemoTools :
                       /\ q.url = TemplateStr(demo.baseUrl) \o "/demo/"
                                      \o TemplateStr(demo.taskId) \o suffix
                       /\ Get(q.body.json, "tool") = Str(suffix)

C9_Witness ==
    \E c \in Calls :
        /\ calls[c].client = "store"
        /\ calls[c].method = "removeFromBasket"
        /\ Len(calls[c].sent) = 1
        /\ calls[c].sent[1].url = "https://erc.timetoact-group.at/store/task-1/basket/remove"
        /\ Get(SentBody(c), "tool") = Str("/basket/remove")

\* C10, as stated: when the caller's usage carries no total_tokens, logLLM
\* sends total_tokens equal to the sum of the prompt_tokens and
\* completion_tokens it sends; a total_tokens that is present is sent as given.
C10_TotalTokensComputed ==
    \A c \in Calls :
        (/\ calls[c].method = "logLLM"
         /\ Len(calls[c].sent) = 1) =>
            LET given == Get(calls[c].args[1], "usage")
                out == Get(SentBody(c), "usage")
            IN  IF "total_tokens" \in DOMAIN given.f
                THEN Get(out, "total_tokens") = given.f["total_tokens"]
                ELSE Get(out, "total_tokens") =
                         Num(Get(out, "prompt_tokens").n + Get(out, "completion_tokens").n)

\* What the caller's usage gives for a counter under its two names: the
\* first name when present (0 included), else the second when present, else 0.
GivenCounter(usage, first, second) ==
    IF first \in DOMAIN usage.f THEN usage.f[first]
    ELSE IF second \in DOMAIN usage.f THEN usage.f[second]
    ELSE Num(0)

\* C11, as stated: the body logLLM sends has usage.prompt_tokens and
\* usage.completion_tokens equal to the caller's prompt_tokens and
\* completion_tokens when those are given (0 included), otherwise to the
\* caller's input_tokens and output_tokens, otherwise 0; it carries the
\* caller's durationSec as duration_sec and the task as task_id, and has no
\* durationSec or taskId key.
C11_UsageCountersNormalized ==
    \A c \in Calls :
        (/\ calls[c].method = "logLLM"
         /\ Len(calls[c].sent) = 1) =>
            LET given == Get(calls[c].args[1], "usage")
                out == Get(SentBody(c), "usage")
            IN  /\ Get(out, "prompt_tokens") =
                       GivenCounter(given, "prompt_tokens", "input_tokens")
                /\ Get(out, "completion_tokens") =
                       GivenCounter(given, "completion_tokens", "output_tokens")
                /\ Get(SentBody(c), "duration_sec") = Get(calls[c].args[1], "durationSec")
                /\ Get(SentBody(c), "task_id") = Get(calls[c].args[1], "taskId")
                /\ DOMAIN SentBody(c).f \cap {"durationSec", "taskId"} = {}

\* C12: viewTask(taskId, since) sends to /tasks/view a body whose since field
\* equals the argument when since is provided (0 included), and exactly
\* {task_id} without a since key when since is null, undefined or omitted;
\* since is never sent as null.
C12_SinceSentOnlyWhenProvided ==
    \A c \in Calls :
        (/\ calls[c].method = "viewTask"
         /\ Len(calls[c].sent) = 1) =>
            LET taskId == calls[c].args[1]
                since == calls[c].args[2]
            IN  /\ calls[c].sent[1].url = TemplateStr(core.baseUrl) \o "/tasks/view"
                /\ since \notin {Null, Undefined} =>
                       SentBody(c) = Obj([task_id |-> taskId, since |-> since])
                /\ since \in {Null, Undefined} =>
                       /\ SentBody(c) = Obj([task_id |-> taskId])
                       /\ "since" \notin DOMAIN SentBody(c).f
                /\ Get(SentBody(c), "since") # Null

C12_Witness ==
    \E c \in Calls :
        /\ Settled(c)
        /\ calls[c].method = "viewTask"
        /\ calls[c].args = <<Str("task-1"), Num(0)>>
        /\ SentBody(c) = Obj([task_id |-> Str("task-1"), since |-> Num(0)])
        /\ calls[c].outcome.kind = "resolved"

\* The string representation of the answers callers pass.
AnswerText(answer) ==
    CASE answer = Str("abc") -> "abc"
      [] answer = Num(42) -> "42"
      [] answer = Bool(TRUE) -> "true"
      [] answer = Bool(FALSE) -> "false"
      [] answer = Null -> "null"
      [] answer = Undefined -> "undefined"

\* The call submits an answer: submitAnswer itself, or dispatch of /answer.
SubmitsAnswer(c) ==
    \/ calls[c].method = "submitAnswer"
    \/ /\ calls[c].via = "dispatch" /\ calls[c].client = "demo"
       /\ Get(calls[c].args[1], "tool") = Str("/answer")

AnswerGiven(c) ==
    IF calls[c].via = "dispatch" THEN Get(calls[c].args[1], "answer") ELSE calls[c].args[1]

\* C13: submitAnswer(answer), called directly or through dispatch of the tool
\* /answer, sends one request whose answer field is a string, the string
\* representation of the argument: for strings, numbers, booleans, null and
\* undefined alike.
C13_AnswerSentAsString ==
    \A c \in Calls :
        SubmitsAnswer(c) =>
            /\ Len(calls[c].sent) = 1
            /\ "answer" \in DOMAIN SentBody(c).f
            /\ SentBody(c).f["answer"].t = "string"
            /\ SentBody(c).f["answer"] = Str(AnswerText(AnswerGiven(c)))

C13_Witness ==
    \E c \in Calls :
        /\ Settled(c)
        /\ calls[c].via = "dispatch"
        /\ calls[c].args[1] = Obj([tool |-> Str("/answer"), answer |-> Bool(FALSE)])
        /\ SentBody(c) = Obj([tool |-> Str("/answer"), answer |-> Str("false")])
        /\ calls[c].outcome.kind = "resolved"

\* No API key is given by k: it is missing or the empty string.
KeyAbsent(k) == k \in {Undefined, Str("")}

\* C14: new ERC3(options) with no API key available (neither options.apiKey
\* nor ERC3_API_KEY, the empty string counting as absent) throws an Error and
\* leaves no client, so whenever a request has been sent the client holds a
\* non-empty API key; a given options.apiKey is the client's key even when
\* ERC3_API_KEY is set, and ERC3_API_KEY is the key when no option is given.
C14_ApiKeyRequired ==
    /\ core # NoClient => (core.apiKey.t = "string" /\ core.apiKey.s # "")
    /\ \A c \in Calls :
        /\ calls[c].sent # <<>> => (core # NoClient /\ ~KeyAbsent(core.apiKey))
        /\ (calls[c].method = "constructor" /\ calls[c].args[1] # Null) =>
               LET optKey == Get(calls[c].args[1], "apiKey")
                   envKey == env.ERC3_API_KEY
               IN  /\ (KeyAbsent(optKey) /\ KeyAbsent(envKey)) =>
                          /\ calls[c].outcome.kind = "rejected"
                          /\ calls[c].outcome.error.name = "Error"
                          /\ core = NoClient
                   /\ ~KeyAbsent(optKey) =>
                          /\ calls[c].outcome = Resolved(core)
                          /\ core.apiKey = optKey
                   /\ (KeyAbsent(optKey) /\ ~KeyAbsent(envKey)) =>
                          /\ calls[c].outcome = Resolved(core)
                          /\ core.apiKey = envKey

C14_Witness ==
    \E c \in Calls :
        /\ calls[c].method = "constructor"
        /\ calls[c].args = <<Obj([apiKey |-> Str("")])>>
        /\ env.ERC3_API_KEY = Str("")
        /\ calls[c].outcome.kind = "rejected"
        /\ calls[c].outcome.error.message =
               Str("API key is required. Set ERC3_API_KEY env var or pass apiKey option.")
        /\ core = NoClient

\* The text a task ID contributes to a URL.
TaskText(taskId) == IF taskId = Undefined THEN "undefined" ELSE taskId.s

\* C15: getStoreClient(taskOrId) and getDemoClient(taskOrId) send no request;
\* given a string or an object they return a client whose base URL is the core
\* client's and whose task ID is the string itself or the object's task_id;
\* every request such a client sends later goes to
\* {baseUrl}/store/{taskId}{suffix} (for the Demo client /demo/).
C15_FactoriesBindTask ==
    \A c \in Calls :
        /\ calls[c].method \in {"getStoreClient", "getDemoClient"} =>
               /\ calls[c].sent = <<>>
               /\ calls[c].args[1].t \in {"string", "object"} =>
                      LET made == IF calls[c].method = "getStoreClient" THEN store ELSE demo
                          arg == calls[c].args[1]
                      IN  /\ calls[c].outcome = Resolved(made)
                          /\ made.baseUrl = core.baseUrl
                          /\ made.taskId = IF arg.t = "string" THEN arg
                                           ELSE Get(arg, "task_id")
        /\ \A i \in 1..Len(calls[c].sent) :
               /\ calls[c].client = "store" =>
                      \E suffix \in StoreTools :
                          calls[c].sent[i].url =
                              core.baseUrl.s \o "/store/" \o TaskText(store.taskId) \o suffix
               /\ calls[c].client = "demo" =>
                      \E suffix \in DemoTools :
                          calls[c].sent[i].url =
                              core.baseUrl.s \o "/demo/" \o TaskText(demo.taskId) \o suffix

C15_Witness ==
    \E c \in Calls :
        /\ Settled(c)
        /\ calls[c].method = "viewBasket"
        /\ core.baseUrl = Str("http://localhost:8080")
        /\ store = [baseUrl |-> Str("http://localhost:8080"), taskId |-> Str("task-2")]
        /\ calls[c].sent[1].url = "http://localhost:8080/store/task-2/basket/view"
        /\ calls[c].outcome.kind = "resolved"

\* C16: startSession(options) sends to /sessions/start the body
\* {account_key, benchmark, workspace, name, architecture} where account_key
\* is the client's configured API key and architecture is "x86_64" when the
\* caller supplied none, and the caller's value otherwise.
C16_StartSessionBody ==
    \A c \in Calls :
        (calls[c].method = "startSession" /\ calls[c].args[1].t = "object") =>
            LET options == calls[c].args[1].f IN
            /\ Len(calls[c].sent) = 1
            /\ calls[c].sent[1].url = core.baseUrl.s \o "/sessions/start"
            /\ SentBody(c) =
                   Obj([account_key |-> core.apiKey,
                        benchmark |-> options["benchmark"],
                        workspace |-> options["workspace"],
                        name |-> options["name"],
                        architecture |-> IF "architecture" \in DOMAIN options
                                         THEN options["architecture"]
                                         ELSE Str("x86_64")])

C16_Witness ==
    \E c \in Calls :
        /\ Settled(c)
        /\ calls[c].method = "startSession"
        /\ core.apiKey = Str("env-key")
        /\ calls[c].args = <<Obj([benchmark |-> Str("demo"), workspace |-> Str("w"),
                                  name |-> Str("n")])>>
        /\ SentBody(c) = Obj([account_key |-> Str("env-key"), benchmark |-> Str("demo"),
                              workspace |-> Str("w"), name |-> Str("n"),
                              architecture |-> Str("x86_64")])
        /\ calls[c].outcome.kind = "resolved"

\* C17, as stated: for every criteria object, searchSessions(criteria) sends
\* a body whose account_key is the client's configured API key, also when
\* criteria has an account_key field of its own, together with every other
\* field of criteria.
C17_ConfiguredKeyAlwaysSent ==
    \A c \in Calls :
        (/\ calls[c].method = "searchSessions"
         /\ Len(calls[c].sent) = 1
         /\ calls[c].args[1].t = "object") =>
            LET criteria == calls[c].args[1].f IN
            /\ Get(SentBody(c), "account_key") = core.apiKey
            /\ \A k \in DOMAIN criteria \ {"account_key"} :
                   Get(SentBody(c), k) = criteria[k]

\* The value v is, or contains at any depth, the value secret.
RECURSIVE Mentions(_, _)
Mentions(v, secret) ==
    \/ v = secret
    \/ v.t = "object" /\ \E k \in DOMAIN v.f : Mentions(v.f[k], secret)
    \/ v.t = "array" /\ \E i \in DOMAIN v.items : Mentions(v.items[i], secret)

\* C18: every request of the three clients is a POST whose only header is
\* Content-Type: application/json; no header carries the API key, and the API
\* key occurs in the body of requests to /sessions/start and /sessions/search
\* only: in no other Core request and in no Store or Demo request.
C18_KeyTravelsInBodyOnly ==
    \A c \in Calls :
        \A i \in 1..Len(calls[c].sent) :
            LET q == calls[c].sent[i] IN
            /\ q.method = "POST"
            /\ DOMAIN q.headers = {"Content-Type"}
            /\ q.headers["Content-Type"] = "application/json"
            /\ \A h \in DOMAIN q.headers : q.headers[h] # core.apiKey.s
            /\ Mentions(q.body.json, core.apiKey) =>
                   /\ calls[c].client = "core"
                   /\ q.url \in {core.baseUrl.s \o "/sessions/start",
                                 core.baseUrl.s \o "/sessions/search"}

C18_Witness ==
    \E c \in Calls :
        /\ Settled(c)
        /\ calls[c].method = "startSession"
        /\ Len(calls[c].sent) = 1
        /\ calls[c].sent[1].url = "https://erc.timetoact-group.at/sessions/start"
        /\ calls[c].sent[1].method = "POST"
        /\ Get(SentBody(c), "account_key") = Str("key-123")
        /\ Mentions(SentBody(c), core.apiKey)
        /\ DOMAIN calls[c].sent[1].headers = {"Content-Type"}

\* The loop has ended: by its break, or by the exception of a failed call.
PagerEnded == pager.pc \in {"done", "failed"}

\* What the loop has done so far agrees with the pagination protocol: it has
\* left by break exactly when the last page received, and no page before it,
\* had next_offset -1; it goes on only while no page had next_offset -1; each
\* call asks for the offset the previous page named (the first for the start
\* offset) with the same limit; and it has made at most one call per product
\* of the catalog, plus one.
PagerFollowsProtocol ==
    LET seen == pager.nextOffsets IN
    /\ pager.pc = "done" =>
           /\ Len(seen) >= 1
           /\ seen[Len(seen)] = Num(-1)
           /\ \A i \in 1..(Len(seen) - 1) : seen[i] # Num(-1)
    /\ pager.pc \in {"loop", "await"} => \A i \in 1..Len(seen) : seen[i] # Num(-1)
    /\ \A c \in Calls :
           (pager.pc = "await" /\ Len(calls[c].sent) = 1) =>
               /\ Get(SentBody(c), "offset") =
                      IF seen = <<>> THEN pager.start ELSE seen[Len(seen)]
               /\ Get(SentBody(c), "limit") = pager.limit
    /\ pager.pageNum <= server.products + 1

OwnEffect(c) ==
    LET args == calls[c].args IN
    CASE calls[c].method = "startTask" -> startTask(args[1])
      [] calls[c].method = "searchSessions" -> searchSessions(args[1])
      [] calls[c].method = "addToBasket" -> addToBasket(args[1], args[2])
      [] calls[c].method = "submitAnswer" -> submitAnswer(args[1])

\* What _request makes of the response of call c.
OwnOutcome(c) ==
    LET r == calls[c].response IN
    CASE r.kind = "network-error" ->
             CatchOf(calls[c].client, PlainError("TypeError", r.message))
      [] r.kind = "response" /\ r.json.kind = "invalid" ->
             CatchOf(calls[c].client, PlainError("SyntaxError", r.json.message))
      [] r.kind = "response" /\ r.json.kind = "parsed" ->
             ResultOf(calls[c].client, r.json.value)
      [] OTHER -> Pending

\* Every call in progress has sent the request its own arguments and the
\* configuration of its instance determine, and has the outcome its own
\* response determines (none while it awaits).
CallsIndependent ==
    \A c \in ConcurrentCalls :
        calls[c].pc # "idle" =>
            LET effect == OwnEffect(c) IN
            IF effect.do = "throw"
            THEN calls[c].sent = <<>> /\ calls[c].outcome = Rejected(effect.error)
            ELSE /\ calls[c].sent =
                        <<FetchOf(calls[c].client, effect.endpoint, effect.data)>>
                 /\ calls[c].outcome =
                        IF calls[c].pc = "settled" THEN OwnOutcome(c) ELSE Pending

\* No step changes the configuration of an instance or the environment.
ConfigurationKept ==
    /\ core' = core
    /\ store' = store
    /\ demo' = demo
    /\ env' = env

\* C20: no facade call changes the configuration of a client (apiKey,
\* baseUrl, taskId) or other shared state, and under every interleaving of
\* concurrent calls, on one instance or on several, the request a call sends
\* and the outcome it has depend only on its own arguments, the configuration
\* its instance was constructed with and its own response.
C20_ConcurrentCallsIndependent == []CallsIndependent /\ [][ConfigurationKept]_vars

C20_Witness ==
    /\ calls["c1"].method = "addToBasket"
    /\ calls["c2"].method = "addToBasket"
    /\ calls["c1"].args = <<Str("SKU-1"), Num(2)>>
    /\ calls["c2"].args = <<Str("SKU-1"), Undefined>>
    /\ calls["c1"].pc = "fetch"
    /\ calls["c2"].pc = "settled"
    /\ calls["c2"].outcome.kind = "rejected"
    /\ calls["c2"].outcome.error.status = Num(400)
    /\ Get(calls["c1"].sent[1].body.json, "quantity") = Num(2)

Executors == {"core", "store", "demo"}

\* The URL prefix of each executor.
PrefixOf(client) ==
    CASE client = "core" -> core.baseUrl.s
      [] client = "store" -> store.baseUrl.s \o "/store/" \o TaskText(store.taskId)
      [] client = "demo" -> demo.baseUrl.s \o "/demo/" \o TaskText(demo.taskId)

\* What the executor of client k makes of the response call c received.
OutcomeVia(k, c) ==
    LET r == calls[c].response IN
    CASE r.kind = "network-error" -> CatchOf(k, PlainError("TypeError", r.message))
      [] r.kind = "response" /\ r.json.kind = "invalid" ->
             CatchOf(k, PlainError("SyntaxError", r.json.message))
      [] r.kind = "response" /\ r.json.kind = "parsed" -> ResultOf(k, r.json.value)

\* C27: the three request executors agree up to their URL prefix: given the
\* path suffix and body of any request a client sent, each executor sends the
\* same method, headers and serialized body to its own prefix plus the
\* suffix, and given the transport failure or response body the call met,
\* each produces the same result or the same ApiException.
C27_ExecutorsEquivalent ==
    \A c \in Calls :
        /\ \A i \in 1..Len(calls[c].sent) :
               LET q == calls[c].sent[i] IN
               \E suffix \in {"/benchmarks/list", "/benchmarks/view", "/sessions/start",
                              "/sessions/status", "/sessions/search", "/sessions/submit",
                              "/tasks/start", "/tasks/complete", "/tasks/view", "/tasks/log"}
                                 \cup StoreTools \cup DemoTools :
                   /\ q.url = PrefixOf(calls[c].client) \o suffix
                   /\ \A k \in Executors :
                          FetchOf(k, suffix, q.body.json) =
                              [q EXCEPT !.url = PrefixOf(k) \o suffix]
        /\ (Settled(c) /\ calls[c].sent # <<>>) =>
               \A k \in Executors : OutcomeVia(k, c) = calls[c].outcome

C27_Witness ==
    \E c \in Calls :
        /\ Settled(c) /\ GotBody(c)
        /\ calls[c].client = "store"
        /\ calls[c].method = "checkout"
        /\ BodyOf(c) = Obj([status |-> Num(400), code |-> Str("NOT_FOUND")])
        /\ calls[c].outcome = ERC3_result(BodyOf(c))
        /\ calls[c].outcome = DemoClient_result(BodyOf(c))
        /\ calls[c].outcome.error.message = Str("API Error")

\* C28, as stated: the outcome of a call is decided by the parsed body alone,
\* whatever the HTTP status of the response: a body without a status field
\* >= 400 resolves the call with that body, also under an HTTP error status,
\* and a body with status >= 400 rejects it with an ApiException, also under
\* HTTP 200.
C28_BodyAloneDecides ==
    \A c \in Calls :
        (Settled(c) /\ GotBody(c)) =>
            IF HasErrorStatus(BodyOf(c))
            THEN /\ calls[c].outcome.kind = "rejected"
                 /\ calls[c].outcome.error.name = "ApiException"
                 /\ calls[c].outcome.error.status = BodyOf(c).f["status"]
            ELSE calls[c].outcome = Resolved(BodyOf(c))

\* C29: getApiKey needs no client and no configured key; it sends exactly
\* {email} by POST to {baseUrl}/get_key (the default base URL when none is
\* given), resolves with the parsed body whatever it is (a body with status
\* >= 400 included), and when fetch or the parsing fails rejects with the
\* original error, which is not an ApiException.
C29_HelperDoesNotTranslate ==
    \A c \in Calls :
        calls[c].method = "getApiKey" =>
            LET email == calls[c].args[1]
                baseUrl == calls[c].args[2]
            IN  /\ core = NoClient
                /\ calls[c].sent =
                       <<[url |-> (IF baseUrl = Undefined THEN "https://erc.timetoact-group.at"
                                   ELSE baseUrl.s) \o "/get_key",
                          method |-> "POST",
                          headers |-> [k \in {"Content-Type"} |-> "application/json"],
                          body |-> [json |-> Only([email |-> email])]]>>
                /\ (Settled(c) /\ GotBody(c)) => calls[c].outcome = Resolved(BodyOf(c))
                /\ (Settled(c) /\ TransportFailed(c)) =>
                       /\ calls[c].outcome.kind = "rejected"
                       /\ calls[c].outcome.error.name \in {"TypeError", "SyntaxError"}
                       /\ calls[c].outcome.error.message = Str(FailureMessage(c))
                       /\ DOMAIN calls[c].outcome.error = {"name", "message"}

C29_Witness ==
    \E c \in Calls :
        /\ Settled(c) /\ GotBody(c)
        /\ calls[c].method = "getApiKey"
        /\ calls[c].args = <<Str("me@example.com"), Undefined>>
        /\ env.ERC3_API_KEY = Undefined
        /\ BodyOf(c) = Obj([status |-> Num(400), error |-> Str("not found")])
        /\ calls[c].outcome = Resolved(BodyOf(c))

----------------------------------------------------------------------------
(* The command-line front-ends.                                            *)

CliExited == cli.pc = "exited"
\* The errors a run has met: the rejections of its awaited calls and the
\* error its exit reports.
Failed ==
    \/ \E i \in 1..Len(cli.outcomes) : cli.outcomes[i].kind = "rejected"
    \/ CliExited /\ cli.exit.error # NoError

\* C21: in every front-end, a run that met an error ends with a non-zero
\* exit status: the rejection of an awaited call ends the run at once, an
\* ApiException is reported with its message, status and code, any other
\* error generically, and a run that ends with status 0 has met no error.
C21_ErrorsExitNonZero ==
    /\ \A i \in 1..Len(cli.outcomes) :
          cli.outcomes[i].kind = "rejected" =>
              /\ CliExited
              /\ i = Len(cli.outcomes)
              /\ cli.exit.error = cli.outcomes[i].error
    /\ CliExited /\ Failed =>
          /\ cli.exit.code # 0
          /\ cli.exit.report =
                 IF cli.exit.error.name = "ApiException" THEN "api" ELSE "generic"
    /\ CliExited /\ cli.exit.code = 0 => ~Failed

C21_Witness ==
    /\ CliExited
    /\ cli.exit.code = 1
    /\ cli.exit.report = "api"
    /\ cli.outcomes # <<>>
    /\ cli.exit.error = ApiException(Str("not found"), Num(400), Str("NOT_FOUND"),
                                     cli.exit.error.detail)

\* The arguments a command requires: its first positional argument and flags.
RequiredOf(command) ==
    [positional |-> command \notin {"benchmarks", "session:search"},
     flags |-> CASE command = "session:start" -> {"workspace", "name"}
                 [] command = "task:log" ->
                        {"model", "prompt-tokens", "completion-tokens", "duration"}
                 [] command \in {"store:add", "store:remove"} -> {"sku"}
                 [] command = "store:coupon:apply" -> {"coupon"}
                 [] command = "demo:answer" -> {"answer"}
                 [] OTHER -> {}]
\* The handler of a known command was entered without one of them.
MissingRequired ==
    /\ cli.pc \in {"awaiting", "exited"}
    /\ cli.parsed # Undefined
    /\ \E h \in {"", "store:", "demo:"}, n \in CoreNames \cup StoreNames \cup DemoNames :
          cli.command = h \o n
    /\ \/ RequiredOf(cli.command).positional /\ cli.parsed.f["_"].items = <<>>
       \/ \E k \in RequiredOf(cli.command).flags : ~Truthy(Get(cli.parsed, k))

\* C22: a command that lacks a required argument ends with a plain Error
\* (not an ApiException) and a non-zero exit status, and has sent no request.
C22_MissingArgumentFailsEarly ==
    MissingRequired =>
        /\ CliExited
        /\ cli.exit.code # 0
        /\ cli.exit.error.name = "Error"
        /\ cli.requests = <<>>
        /\ cli.outcomes = <<>>

C22_Witness ==
    /\ MissingRequired
    /\ CliExited
    /\ core # NoClient
    /\ cli.exit.error = PlainError("Error", "--sku is required")
    /\ cli.requests = <<>>

\* The command line holds the flag --json.
JsonFlagGiven == \E i \in 1..Len(cli.argv) : cli.argv[i] = "--json"

\* C23: products, basket and secret print the raw JSON response whenever
\* the command line holds --json, the documented form with the flag as the
\* last argument included.
C23_JsonFlagPrintsJson ==
    /\ CliExited
    /\ cli.exit.code = 0
    /\ cli.command \in {"store:products", "store:basket", "demo:secret"}
    /\ JsonFlagGiven
    => cli.printed = <<"json">>

\* The tool a request names.
ToolOf(request) == Get(request.body.json, "tool")

\* C30: the coupon commands send the basket-view request only after the
\* coupon request, and only once that has succeeded; a coupon request that
\* fails ends the run with a non-zero status and no basket-view request, and
\* so does a basket-view request that fails.
C30_BasketViewedAfterCoupon ==
    cli.pc # "off" /\ cli.command \in CouponCommands =>
        /\ Len(cli.requests) <= 2
        /\ Len(cli.requests) >= 1 =>
               ToolOf(cli.requests[1]) \in {Str("/coupon/apply"), Str("/coupon/remove")}
        /\ Len(cli.requests) = 2 =>
               /\ ToolOf(cli.requests[2]) = Str("/basket/view")
               /\ cli.outcomes # <<>>
               /\ cli.outcomes[1].kind = "resolved"
        /\ cli.outcomes # <<>> /\ cli.outcomes[1].kind = "rejected" =>
               /\ CliExited
               /\ cli.exit.code # 0
               /\ Len(cli.requests) <= 1
        /\ Len(cli.outcomes) = 2 /\ cli.outcomes[2].kind = "rejected" =>
               /\ CliExited
               /\ cli.exit.code # 0
        /\ CliExited /\ cli.exit.code = 0 =>
               /\ Len(cli.requests) = 2
               /\ Len(cli.outcomes) = 2

C30_Witness ==
    /\ CliExited
    /\ cli.command = "store:coupon:apply"
    /\ Len(cli.requests) = 2
    /\ Len(cli.outcomes) = 2
    /\ cli.outcomes[1].kind = "resolved"
    /\ cli.outcomes[2].kind = "rejected"
    /\ cli.exit.code = 1

====
